---- MODULE Spec2Model ----
(***************************************************************************)
(* hyli-noir: the TypeScript helpers that hash a secret into a blob, pack  *)
(* the blob and the transaction context into the HyliOutput public-input   *)
(* record of a Noir circuit, drive the proof backend and register the      *)
(* circuit with the Hyli node.                                             *)
(*                                                                         *)
(* JavaScript values are modelled as follows.  A string is the sequence of *)
(* its UTF-16 code units (so Len is String.prototype.length), a Uint8Array *)
(* or number[] is a sequence of naturals, an object is a record.  A call   *)
(* that returns is [ok |-> TRUE, value |-> v]; a call that throws (or a    *)
(* promise that rejects) is [ok |-> FALSE, error |-> e].                   *)
(***************************************************************************)
EXTENDS Integers, Sequences, FiniteSets, TLC

VARIABLES
  call,     \* the last synchronous/awaited library call made by a caller, with its result
  node,     \* the Hyli node behind NodeApiHttpClient: the contracts it has registered
  reg,      \* the register_contract invocations, each at its await point
  bpt       \* the check_secret build_proof_transaction invocations, each at its await point

vars == <<call, node, reg, bpt>>

(***************************************************************************)
(* Bounds of the model (not program constants).                            *)
(***************************************************************************)
MaxIdLen == 2
MaxBlobIndex == 1
NumRegisterCalls == 2
NumProofCalls == 1
NumConcurrentCalls == 2
MaxSessionCalls == 3

(***************************************************************************)
(* Program constants.                                                      *)
(***************************************************************************)
IdentityWidth == 256
TxHashWidth == 64
ContractNameWidth == 256
JwtBlobCapacity == 512
\* blob_len of generateHyli (JwtBlobLenIsCapacity: blob_len confused with
\* blob_capacity).
JwtBlobLenIsCapacity == JwtBlobCapacity
JwtBlobLen == 306
SecretBlobCapacity == 32
SecretBlobLen == 32
PasswordLen == 32
PadChar == 48
Colon == 58

\* "check_jwt" and "check_secret" as UTF-16 code units.
contract_name == <<99, 104, 101, 99, 107, 95, 106, 119, 116>>
check_secret_name == <<99, 104, 101, 99, 107, 95, 115, 101, 99, 114, 101, 116>>

Return(v) == [ok |-> TRUE, value |-> v]
Throw(e) == [ok |-> FALSE, error |-> e]

\* typeof/ToNumber of the JavaScript values the code writes into `success`.
JsTrue == [typeof |-> "boolean", num |-> 1]
JsNumber(n) == [typeof |-> "number", num |-> n]

Max(a, b) == IF a >= b THEN a ELSE b
Min(a, b) == IF a <= b THEN a ELSE b

(***************************************************************************)
(* ByteCodec                                                               *)
(***************************************************************************)

\* String.prototype.padEnd(targetLength, "0"): appends the character "0"
\* until the string has targetLength code units; a string that is already
\* that long or longer is returned as it is.
padEnd(s, targetLength) ==
  IF Len(s) >= targetLength THEN s
  ELSE [i \in 1..targetLength |-> IF i <= Len(s) THEN s[i] ELSE PadChar]

\* The padded array as it would be if the copy loop started at index 1.
PaddedArrayFromSecond(data, capacity) ==
  [i \in 1..Max(capacity, Len(data)) |-> IF i > 1 /\ i <= Len(data) THEN data[i] ELSE 0]

\* new Array(capacity).fill(0) followed by `padded[i] = data[i]` for every
\* index of data: writing past the end of a JavaScript array grows it.
PaddedArray(data, capacity) ==
  [i \in 1..Max(capacity, Len(data)) |-> IF i <= Len(data) THEN data[i] ELSE 0]

IsHighSurrogate(c) == c >= 55296 /\ c <= 56319
IsLowSurrogate(c) == c >= 56320 /\ c <= 57343

\* TextEncoder.encode, one UTF-16 code unit at a time: the UTF-8 bytes that
\* the code unit at position i contributes.  A high surrogate followed by a
\* low one encodes their code point in four bytes (the low one then adds
\* nothing); a surrogate on its own encodes U+FFFD.
UnitBytes(s, i) ==
  LET c == s[i] IN
    IF c < 128 THEN <<c>>
    ELSE IF c < 2048 THEN <<192 + (c \div 64), 128 + (c % 64)>>
    ELSE IF IsHighSurrogate(c) /\ i < Len(s) /\ IsLowSurrogate(s[i + 1])
      THEN LET cp == 65536 + ((c - 55296) * 1024) + (s[i + 1] - 56320)
           IN <<240 + (cp \div 262144), 128 + ((cp \div 4096) % 64),
                128 + ((cp \div 64) % 64), 128 + (cp % 64)>>
    ELSE IF IsLowSurrogate(c) /\ i > 1 /\ IsHighSurrogate(s[i - 1]) THEN <<>>
    ELSE IF IsHighSurrogate(c) \/ IsLowSurrogate(c) THEN <<239, 191, 189>>
    ELSE <<224 + (c \div 4096), 128 + ((c \div 64) % 64), 128 + (c % 64)>>

\* The bytes of the code units lo..hi, in order.
RECURSIVE Utf8Range(_, _, _)
Utf8Range(s, lo, hi) ==
  IF lo > hi THEN <<>>
  ELSE IF lo = hi THEN UnitBytes(s, lo)
  ELSE LET mid == (lo + hi) \div 2
       IN Utf8Range(s, lo, mid) \o Utf8Range(s, mid + 1, hi)

\* stringToBytes of common.ts: new TextEncoder().encode(input).
stringToBytes(input) == Utf8Range(input, 1, Len(input))

(***************************************************************************)
(* crypto.subtle.digest("SHA-256", data), FIPS 180-4.  A 32-bit word is    *)
(* the pair <<high 16 bits, low 16 bits>>.                                 *)
(***************************************************************************)
RECURSIVE BitXor(_, _, _)
BitXor(a, b, n) ==
  IF n = 0 THEN 0
  ELSE (((a % 2) + (b % 2)) % 2) + (2 * BitXor(a \div 2, b \div 2, n - 1))

RECURSIVE BitAnd(_, _, _)
BitAnd(a, b, n) ==
  IF n = 0 THEN 0
  ELSE ((a % 2) * (b % 2)) + (2 * BitAnd(a \div 2, b \div 2, n - 1))

Xor8 == [a \in 0..255 |-> [b \in 0..255 |-> BitXor(a, b, 8)]]
And8 == [a \in 0..255 |-> [b \in 0..255 |-> BitAnd(a, b, 8)]]
Pow2 == [n \in 0..16 |-> 2^n]

Xor16(a, b) == (Xor8[a \div 256][b \div 256] * 256) + Xor8[a % 256][b % 256]
And16(a, b) == (And8[a \div 256][b \div 256] * 256) + And8[a % 256][b % 256]

WXor(p, q) == <<Xor16(p[1], q[1]), Xor16(p[2], q[2])>>
WAnd(p, q) == <<And16(p[1], q[1]), And16(p[2], q[2])>>
WNot(p) == <<65535 - p[1], 65535 - p[2]>>
WAdd(p, q) ==
  LET lo == p[2] + q[2]
      hi == p[1] + q[1] + (lo \div 65536)
  IN <<hi % 65536, lo % 65536>>

RotR(p, n) ==
  LET s == IF n >= 16 THEN <<p[2], p[1]>> ELSE p
      m == IF n >= 16 THEN n - 16 ELSE n
      d == Pow2[m]
      u == Pow2[16 - m]
  IN IF m = 0 THEN s
     ELSE <<(s[1] \div d) + ((s[2] % d) * u), (s[2] \div d) + ((s[1] % d) * u)>>

ShR(p, n) ==
  IF n >= 16 THEN <<0, p[1] \div Pow2[n - 16]>>
  ELSE <<p[1] \div Pow2[n], (p[2] \div Pow2[n]) + ((p[1] % Pow2[n]) * Pow2[16 - n])>>

BigSigma0(p) == WXor(WXor(RotR(p, 2), RotR(p, 13)), RotR(p, 22))
BigSigma1(p) == WXor(WXor(RotR(p, 6), RotR(p, 11)), RotR(p, 25))
SmallSigma0(p) == WXor(WXor(RotR(p, 7), RotR(p, 18)), ShR(p, 3))
SmallSigma1(p) == WXor(WXor(RotR(p, 17), RotR(p, 19)), ShR(p, 10))
Ch(e, f, g) == WXor(WAnd(e, f), WAnd(WNot(e), g))
Maj(a, b, c) == WXor(WXor(WAnd(a, b), WAnd(a, c)), WAnd(b, c))

K256 == <<
  <<17034, 12184>>, <<28983, 17553>>, <<46528, 64463>>, <<59829, 56229>>,
  <<14678, 49755>>, <<23025, 4593>>, <<37439, 33444>>, <<43804, 24277>>,
  <<55303, 43672>>, <<4739, 23297>>, <<9265, 34238>>, <<21772, 32195>>,
  <<29374, 23924>>, <<32990, 45566>>, <<39900, 1703>>, <<49563, 61812>>,
  <<58523, 27073>>, <<61374, 18310>>, <<4033, 40390>>, <<9228, 41420>>,
  <<11753, 11375>>, <<19060, 33962>>, <<23728, 43484>>, <<30457, 35034>>,
  <<38974, 20818>>, <<43057, 50797>>, <<45059, 10184>>, <<48985, 32711>>,
  <<50912, 3059>>, <<54695, 37191>>, <<1738, 25425>>, <<5161, 10599>>,
  <<10167, 2693>>, <<11803, 8504>>, <<19756, 28156>>, <<21304, 3347>>,
  <<25866, 29524>>, <<30314, 2747>>, <<33218, 51502>>, <<37490, 11397>>,
  <<41663, 59553>>, <<43034, 26187>>, <<49739, 35696>>, <<51052, 20899>>,
  <<53650, 59417>>, <<54937, 1572>>, <<62478, 13701>>, <<4202, 41072>>,
  <<6564, 49430>>, <<7735, 27656>>, <<10056, 30540>>, <<13488, 48309>>,
  <<14620, 3251>>, <<20184, 43594>>, <<23452, 51791>>, <<26670, 28659>>,
  <<29839, 33518>>, <<30885, 25455>>, <<33992, 30740>>, <<36039, 520>>,
  <<37054, 65530>>, <<42064, 27883>>, <<48889, 41975>>, <<50801, 30962>>
>>

H256 == <<
  <<27145, 58983>>, <<47975, 44677>>, <<15470, 62322>>, <<42319, 62778>>,
  <<20750, 21119>>, <<39685, 26764>>, <<8067, 55723>>, <<23520, 52505>>
>>

BE64(n) ==
  <<0, 0, 0, 0, (n \div 16777216) % 256, (n \div 65536) % 256, (n \div 256) % 256, n % 256>>

\* The message, a 1 bit, zero bits up to 56 mod 64 bytes, the bit length.
ShaPad(msg) ==
  LET l == Len(msg)
      z == (119 - (l % 64)) % 64
  IN msg \o <<128>> \o [i \in 1..z |-> 0] \o BE64(8 * l)

BlockWords(m, o) ==
  [t \in 1..16 |-> <<(m[o + (4 * (t - 1)) + 1] * 256) + m[o + (4 * (t - 1)) + 2],
                     (m[o + (4 * (t - 1)) + 3] * 256) + m[o + (4 * (t - 1)) + 4]>>]

RECURSIVE Schedule(_, _)
Schedule(w, t) ==
  IF Len(w) >= 64 THEN w
  ELSE Schedule(Append(w, WAdd(WAdd(SmallSigma1(w[t - 2]), w[t - 7]),
                               WAdd(SmallSigma0(w[t - 15]), w[t - 16]))), t + 1)

RECURSIVE Rounds(_, _, _)
Rounds(s, w, t) ==
  IF Len(s) # 8 \/ t > 64 THEN s
  ELSE LET t1 == WAdd(WAdd(WAdd(s[8], BigSigma1(s[5])), WAdd(Ch(s[5], s[6], s[7]), K256[t])), w[t])
           t2 == WAdd(BigSigma0(s[1]), Maj(s[1], s[2], s[3]))
       IN Rounds(<<WAdd(t1, t2), s[1], s[2], s[3], WAdd(s[4], t1), s[5], s[6], s[7]>>, w, t + 1)

Compress(h, m, o) ==
  LET w == Schedule(BlockWords(m, o), 17)
      s == Rounds(h, w, 1)
  IN [i \in 1..8 |-> WAdd(h[i], s[i])]

RECURSIVE Blocks(_, _, _)
Blocks(h, m, o) ==
  IF Len(h) # 8 \/ o >= Len(m) THEN h ELSE Blocks(Compress(h, m, o), m, o + 64)

Digest(msg) ==
  LET h == Blocks(H256, ShaPad(msg), 0)
  IN [i \in 1..32 |->
        LET wd == h[((i - 1) \div 4) + 1]
            k == (i - 1) % 4
        IN IF k = 0 THEN wd[1] \div 256
           ELSE IF k = 1 THEN wd[1] % 256
           ELSE IF k = 2 THEN wd[2] \div 256
           ELSE wd[2] % 256]

(***************************************************************************)
(* Inputs the callers are drawn from.                                      *)
(***************************************************************************)
\* 'a', e-acute (2 UTF-8 bytes), the euro sign (3 UTF-8 bytes).
IdChars == {97, 233, 8364}

\* The string made of n copies of the character c.
Repeat(c, n) == [i \in 1..n |-> c]

Alice == <<97, 108, 105, 99, 101>>
Secret123 == <<115, 101, 99, 114, 101, 116, 49, 50, 51>>
\* U+1F600 as a surrogate pair, and a lone high surrogate.
Emoji == <<55357, 56832>>
LoneSurrogate == <<55357>>

ShortIdentities ==
  {Repeat(c, n) : c \in IdChars, n \in 0..MaxIdLen}
    \cup {Alice, Emoji, LoneSurrogate, <<97, 233>>}
LongIdentities ==
  {Repeat(97, n) : n \in {IdentityWidth - 1, IdentityWidth, IdentityWidth + 1}}
Identities == ShortIdentities \cup LongIdentities

Passwords == {<<>>, <<112>>, <<233>>, Secret123}

HexChar(d) == IF d < 10 THEN 48 + d ELSE 87 + d
TxHashes ==
  {[i \in 1..n |-> HexChar((7 * i) % 16)] : n \in {0, TxHashWidth, TxHashWidth + 1}}

Bytes(seed, n) == [i \in 1..n |-> (seed * i) % 256]
Seeds == {1, 2}
JwtDataLens ==
  {0, JwtBlobLen - 1, JwtBlobLen, JwtBlobLen + 1, JwtBlobCapacity, JwtBlobCapacity + 1}
JwtBlobData == {Bytes(s, n) : s \in Seeds, n \in JwtDataLens}
BlobIndexes == 0..MaxBlobIndex
BlobCounts == {1, MaxBlobIndex + 1}

\* The digests of the messages the inputs above give rise to, computed once.
Sha256Messages ==
  {stringToBytes(p) : p \in Passwords}
    \cup {stringToBytes(id) \o <<Colon>> \o Digest(stringToBytes(p)) :
            id \in Identities, p \in Passwords}
Sha256Table == [m \in Sha256Messages |-> Digest(m)]

\* sha256 of common.ts: crypto.subtle.digest("SHA-256", data) as a Uint8Array.
sha256(data) == IF data \in Sha256Messages THEN Sha256Table[data] ELSE Digest(data)

(***************************************************************************)
(* Number and BigInt values and their conversions from and to strings.     *)
(*                                                                         *)
(* A Number is NaN, an infinity or a finite double, and a finite double is *)
(* given by its exact decimal expansion: an integer is [kind |-> "int",    *)
(* neg, digits], digits being the decimal digits of the value, most        *)
(* significant first, without leading zeros; any other double is           *)
(* [kind |-> "fraction", neg, digits, scale], the value digits / 10^scale  *)
(* with a last digit that is not zero.  A BigInt is [neg, magnitude], the  *)
(* magnitude being the base-256 digits of the value, most significant      *)
(* first, without leading zeros (<<0>> for zero).  The values exceed the   *)
(* range of the checker's integers, so the arithmetic is on digits.        *)
(***************************************************************************)
ExponentialFrom == 21

NaN == [kind |-> "NaN", neg |-> FALSE, digits |-> <<>>]
JsInt(neg, digits) == [kind |-> "int", neg |-> neg, digits |-> digits]
JsFraction(neg, digits, scale) == [kind |-> "fraction", neg |-> neg, digits |-> digits, scale |-> scale]
Infinity(neg) == [kind |-> "Infinity", neg |-> neg, digits |-> <<>>]
JsBigInt(neg, magnitude) == [neg |-> neg, magnitude |-> magnitude]

\* The first index from i on whose code unit fails Test (Len(s) + 1 if none).
SkipWhile(s, i, Test(_)) ==
  CHOOSE j \in i..(Len(s) + 1) :
    (j = Len(s) + 1 \/ ~Test(s[j])) /\ \A k \in i..(j - 1) : Test(s[k])

At(s, i) == IF i >= 1 /\ i <= Len(s) THEN s[i] ELSE -1

IsDigit(c) == c >= 48 /\ c <= 57
IsHexDigit(c) == IsDigit(c) \/ (c >= 65 /\ c <= 70) \/ (c >= 97 /\ c <= 102)

\* The value of one hexadecimal digit character (0-9, a-f, A-F).
HexDigitValue(c) ==
  IF c >= 97 THEN c - 87 ELSE IF c >= 65 THEN c - 55 ELSE c - 48

\* WhiteSpace and LineTerminator code units: TAB, LF, VT, FF, CR, SP, NBSP,
\* U+1680, U+2000..U+200A, LS, PS, U+202F, U+205F, U+3000 and U+FEFF.
IsWhiteSpace(c) ==
  \/ c \in {9, 10, 11, 12, 13, 32, 160, 5760, 8232, 8233, 8239, 8287, 12288, 65279}
  \/ (c >= 8192 /\ c <= 8202)

\* The string without the white space at its two ends.
TrimString(string) ==
  LET from == SkipWhile(string, 1, IsWhiteSpace)
      to == CHOOSE j \in (from - 1)..Len(string) :
              (j = from - 1 \/ ~IsWhiteSpace(string[j]))
                /\ \A k \in (j + 1)..Len(string) : IsWhiteSpace(string[k])
  IN SubSeq(string, from, to)

DigitChars(digits) == [i \in 1..Len(digits) |-> 48 + digits[i]]
DigitValues(t, from, to) == [i \in 1..(to - from + 1) |-> t[from + i - 1] - 48]

RECURSIVE DecimalDigits(_)
DecimalDigits(n) == IF n < 10 THEN <<n>> ELSE Append(DecimalDigits(n \div 10), n % 10)

\* The natural number with these digits in this base (one below 2^31).
RECURSIVE NaturalOf(_, _)
NaturalOf(digits, base) ==
  IF digits = <<>> THEN 0
  ELSE (base * NaturalOf(SubSeq(digits, 1, Len(digits) - 1), base)) + digits[Len(digits)]

StripTrailingZeros(digits) ==
  LET last == CHOOSE i \in 1..Len(digits) :
                (i = 1 \/ digits[i] # 0) /\ \A k \in (i + 1)..Len(digits) : digits[k] = 0
  IN IF digits = <<>> THEN digits ELSE SubSeq(digits, 1, last)

StripLeadingZeros(digits) ==
  LET first == CHOOSE i \in 1..Len(digits) :
                 (i = Len(digits) \/ digits[i] # 0) /\ \A k \in 1..(i - 1) : digits[k] = 0
  IN IF digits = <<>> THEN digits ELSE SubSeq(digits, first, Len(digits))

Zeros(n) == [i \in 1..n |-> 0]

\* a + b for naturals given by their digits in this base.
Plus(a, b, base) ==
  LET n == Max(Len(a), Len(b)) + 1
      sum == [i \in 1..n |->
                (IF i > n - Len(a) THEN a[i - (n - Len(a))] ELSE 0)
                  + (IF i > n - Len(b) THEN b[i - (n - Len(b))] ELSE 0)]
      Carry(i) ==
        \E j \in (i + 1)..n :
          sum[j] >= base /\ \A k \in (i + 1)..(j - 1) : sum[k] = base - 1
  IN StripLeadingZeros([i \in 1..n |-> (sum[i] + (IF Carry(i) THEN 1 ELSE 0)) % base])

\* Arithmetic on naturals given by their decimal digits.

Less(a, b) ==
  \/ Len(a) < Len(b)
  \/ /\ Len(a) = Len(b)
     /\ \E i \in 1..Len(a) : a[i] < b[i] /\ \A h \in 1..(i - 1) : a[h] = b[h]

IsOdd(d) == d[Len(d)] % 2 = 1

Half(d) ==
  LET q == [i \in 1..Len(d) |->
              (((IF i > 1 THEN d[i - 1] % 2 ELSE 0) * 10) + d[i]) \div 2]
  IN SubSeq(q, IF Len(q) > 1 /\ q[1] = 0 THEN 2 ELSE 1, Len(q))

Double(d) ==
  LET twice == [i \in 1..(Len(d) + 1) |->
                  (IF i > 1 THEN (2 * d[i - 1]) % 10 ELSE 0)
                    + (IF i <= Len(d) /\ d[i] >= 5 THEN 1 ELSE 0)]
  IN SubSeq(twice, IF twice[1] = 0 THEN 2 ELSE 1, Len(twice))

Quintuple(d) == Half(d \o <<0>>)

Succ(d) ==
  LET p == IF \A i \in 1..Len(d) : d[i] = 9 THEN 0
           ELSE CHOOSE i \in 1..Len(d) : d[i] # 9 /\ \A h \in (i + 1)..Len(d) : d[h] = 9
  IN IF p = 0 THEN <<1>> \o Zeros(Len(d))
     ELSE SubSeq(d, 1, p - 1) \o <<d[p] + 1>> \o Zeros(Len(d) - p)

\* d * 2^e
RECURSIVE Doubled(_, _)
Doubled(d, e) ==
  LET half == Doubled(d, e \div 2)
  IN IF e = 0 THEN d
     ELSE IF e = 1 THEN Double(d)
     ELSE IF half = <<>> THEN <<>>
     ELSE Doubled(half, e - (e \div 2))

\* d * 5^e
RECURSIVE Quintupled(_, _)
Quintupled(d, e) ==
  LET half == Quintupled(d, e \div 2)
  IN IF e = 0 THEN d
     ELSE IF e = 1 THEN Quintuple(d)
     ELSE IF half = <<>> THEN <<>>
     ELSE Quintupled(half, e - (e \div 2))

\* d = q * 2^e + r, r < 2^e: the quotient q and whether r is not zero.
RECURSIVE Halved(_, _)
Halved(d, e) ==
  LET high == Halved(d, e \div 2)
      low == Halved(high.q, e - (e \div 2))
  IN IF e = 0 THEN [q |-> d, sticky |-> FALSE]
     ELSE IF e = 1 THEN [q |-> Half(d), sticky |-> IsOdd(d)]
     ELSE IF high.q = <<>> THEN high
     ELSE [q |-> low.q, sticky |-> high.sticky \/ low.sticky]

\* The natural with these binary digits, in decimal.
RECURSIVE BitsValue(_)
BitsValue(bits) ==
  LET low == Len(bits) \div 2
      high == BitsValue(SubSeq(bits, 1, Len(bits) - low))
  IN IF Len(bits) <= 24 THEN DecimalDigits(NaturalOf(bits, 2))
     ELSE IF high = <<>> THEN <<>>
     ELSE Plus(Doubled(high, low), BitsValue(SubSeq(bits, Len(bits) - low + 1, Len(bits))), 10)

\* 2^53 and 2^54: below 2^53 every integer is a Number value.
TwoTo53 == <<9, 0, 0, 7, 1, 9, 9, 2, 5, 4, 7, 4, 0, 9, 9, 2>>
TwoTo54 == Double(TwoTo53)
\* The largest exponent e of a finite Number value m * 2^e, m < 2^53.
MaxExponent == 971
\* The number of decimal digits of the largest one, about 1.8 * 10^308.
MaxDecimalDigits == 309
\* The smallest Number value above zero is 2^-1074: a value is rounded at
\* the bit 2^-1075 at the lowest.
MaxBinaryScale == 1075
\* A value below 10^-324 is below 2^-1075.
MaxDecimalScale == 324

\* d = q * 2^e + r with 2^53 <= q < 2^54 for d >= 2^53: the 54 leading bits
\* of d, whether a lower bit is set, and the number of lower bits.  The bits
\* are dropped `step` at a time, in smaller steps once that drops too many;
\* RoundInteger first drops the bits that 10^(Len(d) - 1) >= 2^(3 (Len(d) - 1))
\* shows to be below the 54 leading ones.
RECURSIVE LeadingBits(_, _, _, _)
LeadingBits(d, sticky, e, step) ==
  LET h == Halved(d, step)
  IN IF Less(d, TwoTo54) THEN [q |-> d, sticky |-> sticky, e |-> e]
     ELSE IF Less(h.q, TwoTo53) THEN LeadingBits(d, sticky, e, step \div 8)
     ELSE IF sticky \/ h.sticky THEN LeadingBits(h.q, TRUE, e + step, step)
     ELSE LeadingBits(h.q, FALSE, e + step, step)

\* The Number value (its sign apart) of a real from the integer d >= 2^53 up
\* to d + 1, `more` telling that it is above d: the nearest double, ties to
\* the even significand, Infinity from 2^1024 - 2^970 on.
RoundInteger(neg, d, more) ==
  LET sure == Max(0, (3 * (Len(d) - 1)) - 53)
      Leading(high) == LeadingBits(high.q, high.sticky \/ more, sure, 8)
      Value(r, m) ==
        LET up == IsOdd(r.q) /\ (r.sticky \/ IsOdd(m))
            significand == IF up THEN Succ(m) ELSE m
        IN IF r.e + 1 > MaxExponent \/ (r.e + 1 = MaxExponent /\ significand = TwoTo53)
           THEN Infinity(neg)
           ELSE JsInt(neg, Doubled(significand, r.e + 1))
      Nearest(r) == Value(r, Half(r.q))
  IN IF Len(d) > MaxDecimalDigits THEN Infinity(neg)
     ELSE Nearest(Leading(Halved(d, sure)))

\* The Number value of a mathematical integer (its sign apart).
RoundToDouble(neg, d) ==
  IF Less(d, TwoTo53) THEN JsInt(neg, d) ELSE RoundInteger(neg, d, FALSE)

\* floor(n / 10^k), and whether n is not a multiple of 10^k.
Quotient(n, k) == IF Len(n) > k THEN SubSeq(n, 1, Len(n) - k) ELSE <<0>>
HasRemainder(n, k) == \E i \in Max(1, Len(n) - k + 1)..Len(n) : n[i] # 0

\* n * 2^s for the largest s (from the one given up to MaxBinaryScale) that
\* leaves floor(n * 2^s / 10^k) below 2^54, for n / 10^k below 2^53.  The
\* doublings are tried `step` at a time, then in smaller steps.
RECURSIVE ScaledUp(_, _, _, _)
ScaledUp(n, k, s, step) ==
  LET t == Min(step, MaxBinaryScale - s)
      next == Doubled(n, t)
  IN IF s = MaxBinaryScale \/ ~Less(Quotient(n, k), TwoTo53) THEN [n |-> n, s |-> s]
     ELSE IF Less(Quotient(next, k), TwoTo54) THEN ScaledUp(next, k, s + t, step)
     ELSE ScaledUp(n, k, s, step \div 8)

\* The double m / 2^p (m > 0, p > 0): m * 5^p / 10^p without the zeros at
\* the end.
Dyadic(neg, m, p) ==
  LET Canonical(digits, kept) ==
        IF Len(digits) - kept >= p THEN JsInt(neg, SubSeq(digits, 1, Len(digits) - p))
        ELSE JsFraction(neg, SubSeq(digits, 1, kept), p - (Len(digits) - kept))
      Stripped(digits) == Canonical(digits, Len(StripTrailingZeros(digits)))
  IN Stripped(Quintupled(m, p))

\* The double nearest to (q + r) / 2^s, q < 2^54 an integer and 0 <= r < 1,
\* `more` telling that r > 0; q >= 2^53 unless s = MaxBinaryScale.  It is
\* [sig, s], the value sig / 2^s with 2^52 <= sig < 2^53 unless
\* s = MaxBinaryScale - 1.
NearestBinaryOf(q, more, s) ==
  LET Value(m) ==
        LET up == IsOdd(q) /\ (more \/ IsOdd(m))
            significand == IF up THEN Succ(m) ELSE m
        IN IF significand = TwoTo53 THEN [sig |-> Half(TwoTo53), s |-> s - 2]
           ELSE [sig |-> significand, s |-> s - 1]
  IN Value(Half(q))

ScaledToBinary(k, scaled) ==
  NearestBinaryOf(Quotient(scaled.n, k), HasRemainder(scaled.n, k), scaled.s)

\* d * 10^e is above 10^-324, below 2^53 and written with a fraction.
InFractionRange(d, e) ==
  /\ d # <<0>> /\ e < 0
  /\ Len(d) + e > -MaxDecimalScale
  /\ Less(Quotient(d, -e), TwoTo53)

\* The double nearest to d * 10^e in that range, ties to the even
\* significand, as [sig, s].
NearestBinary(d, e) == ScaledToBinary(-e, ScaledUp(d, -e, 0, 512))

\* The double sig / 2^s
FromBinary(neg, binary) ==
  IF binary.sig = <<0>> THEN JsInt(neg, <<0>>)
  ELSE IF binary.s <= 0 THEN JsInt(neg, Doubled(binary.sig, -binary.s))
  ELSE Dyadic(neg, binary.sig, binary.s)

\* The Number value (its sign apart) of d * 10^e, d a natural and e an
\* integer: the nearest double, ties to the even significand.
DecimalToDouble(neg, d, e) ==
  IF d = <<0>> THEN JsInt(neg, <<0>>)
  ELSE IF e >= 0
    THEN (IF Len(d) + e > MaxDecimalDigits THEN Infinity(neg)
          ELSE RoundToDouble(neg, d \o Zeros(e)))
  ELSE IF Len(d) + e <= -MaxDecimalScale THEN JsInt(neg, <<0>>)
  ELSE IF ~Less(Quotient(d, -e), TwoTo53)
    THEN RoundInteger(neg, Quotient(d, -e), HasRemainder(d, -e))
  ELSE FromBinary(neg, NearestBinary(d, e))

\* d * 10^e denotes the finite double v > 0 (an integer from 2^53 on, or
\* else the double `binary`): v is the double nearest to it.
Denotes(d, e, v, binary) ==
  IF v.kind = "int" THEN DecimalToDouble(FALSE, d, e) = v
  ELSE InFractionRange(d, e) /\ NearestBinary(d, e) = binary

\* The n significant digits that Number::toString would print for the finite
\* double v > 0 (an integer from 2^53 on, or else the double `binary`) if n
\* digits can denote v: the first n digits of v or these plus one, the
\* closer of the two if both denote v (the even one if both are as close);
\* <<>> if neither denotes v.
ShortestCandidate(v, binary, n) ==
  LET e == Len(v.digits) - (IF v.kind = "fraction" THEN v.scale ELSE 0) - n
      dn == SubSeq(v.digits, 1, n)
      up == Succ(dn)
      rest == SubSeq(v.digits, n + 1, Len(v.digits))
      Pick(okDn, okUp) ==
        IF okDn /\ okUp
        THEN (IF rest[1] < 5 THEN dn
              ELSE IF rest = <<5>> \o Zeros(Len(rest) - 1)
                THEN (IF IsOdd(dn) THEN up ELSE dn)
              ELSE up)
        ELSE IF okDn THEN dn
        ELSE IF okUp THEN up
        ELSE <<>>
  IN IF \A i \in 1..Len(rest) : rest[i] = 0 THEN dn
     ELSE Pick(Denotes(dn, e, v, binary), Denotes(up, e, v, binary))

\* The digits Number::toString prints for that double, the fewest that
\* denote it (n or more), and the number of them before the decimal point
\* (zero or less: the zeros after it).
RECURSIVE ShortestDigits(_, _, _)
ShortestDigits(v, binary, n) ==
  LET Found(c) ==
        IF c = <<>> THEN ShortestDigits(v, binary, n + 1)
        ELSE [digits |-> c,
              point |-> Len(c) + (Len(v.digits) - (IF v.kind = "fraction" THEN v.scale ELSE 0) - n)]
  IN Found(ShortestCandidate(v, binary, n))

\* Number::toString of the value 0.d1 d2 ... * 10^n with these digits: the
\* digits filled with zeros up to 10^21, the digits with a decimal point, 0.
\* and up to five zeros before the digits, or else the form d.ddde+n.
NumberForm(neg, digits, n) ==
  LET sig == StripTrailingZeros(digits)
      k == Len(sig)
      sign == IF neg THEN <<45>> ELSE <<>>
      mantissa == <<48 + sig[1]>> \o (IF k = 1 THEN <<>> ELSE <<46>> \o DigitChars(Tail(sig)))
  IN IF k <= n /\ n <= ExponentialFrom
     THEN sign \o DigitChars(sig) \o [i \in 1..(n - k) |-> 48]
     ELSE IF 0 < n /\ n <= ExponentialFrom
       THEN sign \o DigitChars(SubSeq(sig, 1, n)) \o <<46>> \o DigitChars(SubSeq(sig, n + 1, k))
     ELSE IF -6 < n /\ n <= 0
       THEN sign \o <<48, 46>> \o [i \in 1..(-n) |-> 48] \o DigitChars(sig)
     ELSE IF n < 1
       THEN sign \o mantissa \o <<101, 45>> \o DigitChars(DecimalDigits(1 - n))
     ELSE sign \o mantissa \o <<101, 43>> \o DigitChars(DecimalDigits(n - 1))

\* `${nonce}`, String(number): Number::toString(x) in radix 10.  "NaN";
\* "Infinity"; "-" before a negative value (not before -0); the shortest
\* digits that denote x.
NumberToString(x) ==
  LET Short(v, s) == NumberForm(v.neg, s.digits, s.point)
      Finite(v) == [v EXCEPT !.neg = FALSE]
      Text(v) ==
        IF v.kind = "NaN" THEN <<78, 97, 78>>
        ELSE IF v.kind = "Infinity"
          THEN (IF v.neg THEN <<45>> ELSE <<>>) \o <<73, 110, 102, 105, 110, 105, 116, 121>>
        ELSE IF v.kind = "fraction"
          THEN Short(v, ShortestDigits(Finite(v), NearestBinary(v.digits, -v.scale), 1))
        ELSE IF Less(v.digits, TwoTo53)
          THEN NumberForm(v.neg /\ v.digits # <<0>>, v.digits, Len(v.digits))
        ELSE Short(v, ShortestDigits(Finite(v), <<>>, 1))
  IN Text(IF x.kind = "int" THEN RoundToDouble(x.neg, x.digits) ELSE x)

\* The exponent written with these digits, as far as it matters (no double
\* has a decimal exponent beyond a few hundred).
ExponentValue(digits) ==
  IF Len(StripLeadingZeros(digits)) > 6 THEN 1000000
  ELSE NaturalOf(StripLeadingZeros(digits), 10)

\* The Number value of the decimal literal t (its sign apart): digits with
\* an optional fraction, or a fraction alone, and an optional exponent.
\* NaN if t is not one.
DecimalLiteral(neg, t) ==
  LET intEnd == SkipWhile(t, 1, IsDigit)
      point == At(t, intEnd) = 46
      fractionEnd == IF point THEN SkipWhile(t, intEnd + 1, IsDigit) ELSE intEnd
      int == DigitValues(t, 1, intEnd - 1)
      fraction == IF point THEN DigitValues(t, intEnd + 1, fractionEnd - 1) ELSE <<>>
      exponent == At(t, fractionEnd) \in {69, 101}
      expFrom == IF At(t, fractionEnd + 1) \in {43, 45} THEN fractionEnd + 2
                 ELSE fractionEnd + 1
      end == IF exponent THEN SkipWhile(t, Min(expFrom, Len(t) + 1), IsDigit)
             ELSE fractionEnd
      power == IF ~exponent THEN 0
               ELSE IF At(t, fractionEnd + 1) = 45
                 THEN -ExponentValue(DigitValues(t, expFrom, end - 1))
               ELSE ExponentValue(DigitValues(t, expFrom, end - 1))
  IN IF \/ int = <<>> /\ fraction = <<>>
        \/ exponent /\ end <= expFrom
        \/ end # Len(t) + 1
     THEN NaN
     ELSE DecimalToDouble(neg, StripLeadingZeros(int \o fraction), power - Len(fraction))

\* The bits of a digit of a literal that starts with 0x, 0o or 0b (either
\* case): 4, 3 or 1, and 0 for any other string.
RadixBits(t) ==
  IF Len(t) < 2 \/ t[1] # 48 THEN 0
  ELSE IF t[2] \in {120, 88} THEN 4
  ELSE IF t[2] \in {111, 79} THEN 3
  ELSE IF t[2] \in {98, 66} THEN 1
  ELSE 0

\* The binary digits of the literal t that starts with 0x, 0o or 0b; a
\* SyntaxError if no digit follows or one is not of the radix.
NonDecimalLiteral(t) ==
  LET bits == RadixBits(t)
      IsRadixDigit(c) == IsHexDigit(c) /\ HexDigitValue(c) < 2 ^ bits
  IN IF Len(t) > 2 /\ \A i \in 3..Len(t) : IsRadixDigit(t[i])
     THEN Return([i \in 1..((Len(t) - 2) * bits) |->
                    (HexDigitValue(t[3 + ((i - 1) \div bits)])
                       \div (2 ^ (bits - 1 - ((i - 1) % bits)))) % 2])
     ELSE Throw("SyntaxError")

\* Number(string), StringToNumber: white space around is dropped; the empty
\* string is 0; a decimal literal with an optional sign, "Infinity" with an
\* optional sign, or a literal 0x.., 0o.., 0b.. gives its value; any other
\* string is NaN.
StringToNumber(string) ==
  LET Signed(t) == t # <<>> /\ t[1] \in {43, 45}
      Unsigned(t) == IF Signed(t) THEN Tail(t) ELSE t
      Other(literal) ==
        IF literal.ok THEN RoundToDouble(FALSE, BitsValue(literal.value)) ELSE NaN
      Value(t) ==
        IF t = <<>> THEN JsInt(FALSE, <<0>>)
        ELSE IF Unsigned(t) = <<73, 110, 102, 105, 110, 105, 116, 121>>
          THEN Infinity(t[1] = 45)
        ELSE IF RadixBits(t) > 0 THEN Other(NonDecimalLiteral(t))
        ELSE DecimalLiteral(t[1] = 45, Unsigned(t))
  IN Value(TrimString(string))

\* Arithmetic on naturals given by their digits in base 256: 2 m, 10 m and
\* m * 10^k.
TwiceBytes(m) ==
  LET twice == [i \in 1..(Len(m) + 1) |->
                  (IF i > 1 THEN (2 * m[i - 1]) % 256 ELSE 0)
                    + (IF i <= Len(m) /\ m[i] >= 128 THEN 1 ELSE 0)]
  IN SubSeq(twice, IF twice[1] = 0 THEN 2 ELSE 1, Len(twice))

TenfoldBytes(m) == Plus(TwiceBytes(TwiceBytes(TwiceBytes(m))), TwiceBytes(m), 256)

RECURSIVE TimesTenTo(_, _)
TimesTenTo(m, k) ==
  LET half == TimesTenTo(m, k \div 2)
  IN IF k = 0 THEN m
     ELSE IF k = 1 THEN TenfoldBytes(m)
     ELSE IF half = <<>> THEN <<>>
     ELSE TimesTenTo(half, k - (k \div 2))

RECURSIVE SmallBase256(_)
SmallBase256(n) == IF n < 256 THEN <<n>> ELSE Append(SmallBase256(n \div 256), n % 256)

\* The base-256 digits of the natural with these decimal digits.
RECURSIVE Base256(_)
Base256(d) ==
  LET low == Len(d) \div 2
      high == Base256(SubSeq(d, 1, Len(d) - low))
  IN IF Len(d) <= 8 THEN SmallBase256(NaturalOf(d, 10))
     ELSE IF high = <<>> THEN <<>>
     ELSE Plus(TimesTenTo(high, low), Base256(SubSeq(d, Len(d) - low + 1, Len(d))), 256)

\* The base-256 digits of the natural with these binary digits.
BytesOfBits(bits) ==
  LET n == (Len(bits) + 7) \div 8
      padded == Zeros((8 * n) - Len(bits)) \o bits
  IN StripLeadingZeros([i \in 1..n |-> NaturalOf(SubSeq(padded, (8 * i) - 7, 8 * i), 2)])

\* BigInt(string), StringToBigInt: white space around is dropped; the empty
\* string is 0n; decimal digits with an optional sign, or a literal 0x..,
\* 0o.., 0b.. give their value; any other string is a SyntaxError.
BigInt(string) ==
  LET Signed(t) == t # <<>> /\ t[1] \in {43, 45}
      Unsigned(t) == IF Signed(t) THEN Tail(t) ELSE t
      Natural(neg, d) == Return(JsBigInt(neg /\ d # <<0>>, Base256(d)))
      Other(literal) ==
        IF literal.ok THEN Return(JsBigInt(FALSE, BytesOfBits(literal.value))) ELSE literal
      Value(t) ==
        IF t = <<>> THEN Return(JsBigInt(FALSE, <<0>>))
        ELSE IF RadixBits(t) > 0 THEN Other(NonDecimalLiteral(t))
        ELSE IF Unsigned(t) # <<>> /\ \A i \in 1..Len(Unsigned(t)) : IsDigit(Unsigned(t)[i])
          THEN Natural(t[1] = 45, StripLeadingZeros(DigitValues(Unsigned(t), 1, Len(Unsigned(t)))))
        ELSE Throw("SyntaxError")
  IN Value(TrimString(string))

\* BigInt.prototype.toString(16): "-" before a negative value and the
\* hexadecimal digits of the magnitude, without leading zeros.
BigIntToString16(big) ==
  LET m == big.magnitude
      hex == [k \in 1..(2 * Len(m)) |->
                HexChar(IF k % 2 = 1 THEN m[(k + 1) \div 2] \div 16 ELSE m[k \div 2] % 16)]
  IN (IF big.neg THEN <<45>> ELSE <<>>) \o (IF m[1] < 16 THEN Tail(hex) ELSE hex)

(***************************************************************************)
(* HyliRecordAssembler                                                     *)
(***************************************************************************)

\* generateHyli as it would be if `index` were taken to be the last blob of the
\* transaction instead of the caller's blob_index.
generateHyliIndexFromCount(id, stored_hash, tx_hash, blob_index, tx_blob_count) ==
  LET initial_state == <<0, 0, 0, 0>>
      next_state == <<0, 0, 0, 0>>
      blob_capacity == JwtBlobCapacity
      blob_len == JwtBlobLen
  IN IF Len(stored_hash) # blob_len
       THEN Throw(<<"Blob length is ", Len(stored_hash), " not ", blob_len, " bytes">>)
     ELSE Return([
       version |-> 1,
       initial_state |-> initial_state,
       initial_state_len |-> Len(initial_state),
       next_state |-> next_state,
       next_state_len |-> Len(next_state),
       identity |-> padEnd(id, IdentityWidth),
       identity_len |-> Len(id),
       tx_hash |-> padEnd(tx_hash, TxHashWidth),
       index |-> tx_blob_count - 1,
       blob_number |-> 1,
       blob_index |-> blob_index,
       blob_contract_name_len |-> Len(contract_name),
       blob_contract_name |-> padEnd(contract_name, ContractNameWidth),
       blob_capacity |-> blob_capacity,
       blob_len |-> blob_len,
       blob |-> PaddedArray(stored_hash, JwtBlobCapacity),
       tx_blob_count |-> tx_blob_count,
       success |-> JsTrue])

\* generateHyli as it would be without its assertion on the length of the
\* stored hash.
generateHyliUnchecked(id, stored_hash, tx_hash, blob_index, tx_blob_count) ==
  LET initial_state == <<0, 0, 0, 0>>
      next_state == <<0, 0, 0, 0>>
      blob_capacity == JwtBlobCapacity
      blob_len == JwtBlobLen
  IN Return([
       version |-> 1,
       initial_state |-> initial_state,
       initial_state_len |-> Len(initial_state),
       next_state |-> next_state,
       next_state_len |-> Len(next_state),
       identity |-> padEnd(id, IdentityWidth),
       identity_len |-> Len(id),
       tx_hash |-> padEnd(tx_hash, TxHashWidth),
       index |-> blob_index,
       blob_number |-> 1,
       blob_index |-> blob_index,
       blob_contract_name_len |-> Len(contract_name),
       blob_contract_name |-> padEnd(contract_name, ContractNameWidth),
       blob_capacity |-> blob_capacity,
       blob_len |-> blob_len,
       blob |-> PaddedArray(stored_hash, JwtBlobCapacity),
       tx_blob_count |-> tx_blob_count,
       success |-> JsTrue])

\* check_jwt: generateHyli(id, stored_hash, tx_hash, blob_index, tx_blob_count)
generateHyli(id, stored_hash, tx_hash, blob_index, tx_blob_count) ==
  LET initial_state == <<0, 0, 0, 0>>
      next_state == <<0, 0, 0, 0>>
      blob_capacity == JwtBlobCapacity
      blob_len == JwtBlobLen
  IN IF Len(stored_hash) # blob_len
       THEN Throw(<<"Blob length is ", Len(stored_hash), " not ", blob_len, " bytes">>)
     ELSE Return([
       version |-> 1,
       initial_state |-> initial_state,
       initial_state_len |-> Len(initial_state),
       next_state |-> next_state,
       next_state_len |-> Len(next_state),
       identity |-> padEnd(id, IdentityWidth),
       identity_len |-> Len(id),
       tx_hash |-> padEnd(tx_hash, TxHashWidth),
       index |-> blob_index,
       blob_number |-> 1,
       blob_index |-> blob_index,
       blob_contract_name_len |-> Len(contract_name),
       blob_contract_name |-> padEnd(contract_name, ContractNameWidth),
       blob_capacity |-> blob_capacity,
       blob_len |-> blob_len,
       blob |-> PaddedArray(stored_hash, JwtBlobCapacity),
       tx_blob_count |-> tx_blob_count,
       success |-> JsTrue])

\* check_secret, current version: generateProverData(id, pwd, stored_hash, tx,
\* blob_index, tx_blob_count) returns { hyli_output, password }.
generateProverData(id, pwd, stored_hash, tx, blob_index, tx_blob_count) ==
  LET hyli_output == [
        version |-> 1,
        initial_state |-> <<0, 0, 0, 0>>,
        initial_state_len |-> 4,
        next_state |-> <<0, 0, 0, 0>>,
        next_state_len |-> 4,
        identity_len |-> Len(id),
        identity |-> padEnd(id, IdentityWidth),
        tx_hash |-> padEnd(tx, TxHashWidth),
        index |-> blob_index,
        blob_number |-> 1,
        blob_index |-> blob_index,
        blob_contract_name_len |-> Len(check_secret_name),
        blob_contract_name |-> padEnd(check_secret_name, ContractNameWidth),
        blob_capacity |-> SecretBlobCapacity,
        blob_len |-> SecretBlobLen,
        blob |-> PaddedArray(stored_hash, SecretBlobCapacity),
        tx_blob_count |-> tx_blob_count,
        success |-> JsNumber(1)]
      password == pwd
  IN IF Len(hyli_output.blob) # SecretBlobCapacity
       THEN Throw(<<"HyliOutput blob must be 32 bytes">>)
     ELSE IF Len(password) # PasswordLen
       THEN Throw(<<"Password length is not 32 bytes">>)
     ELSE Return([hyli_output |-> hyli_output, password |-> password])

\* check_secret, earlier version: the record is flat and carries tx_hash_len
\* and the password beside the HyliOutput fields.
generateProverDataEarlier(id, pwd, stored_hash, tx, blob_index, tx_blob_count) ==
  LET initial_state == <<0, 0, 0, 0>>
      next_state == <<0, 0, 0, 0>>
      tx_hash == padEnd(tx, TxHashWidth)
      blob_len == SecretBlobLen
      blob == stored_hash
      password == pwd
  IN IF Len(password) # PasswordLen
       THEN Throw(<<"Password length is not 32 bytes">>)
     ELSE IF Len(blob) # blob_len
       THEN Throw(<<"Blob length is not 32 bytes">>)
     ELSE Return([
       version |-> 1,
       initial_state |-> initial_state,
       initial_state_len |-> Len(initial_state),
       next_state |-> next_state,
       next_state_len |-> Len(next_state),
       identity |-> padEnd(id, IdentityWidth),
       identity_len |-> Len(id),
       tx_hash |-> tx_hash,
       tx_hash_len |-> Len(tx_hash),
       index |-> blob_index,
       blob_number |-> 1,
       blob_index |-> blob_index,
       blob_contract_name_len |-> Len(check_secret_name),
       blob_contract_name |-> padEnd(check_secret_name, ContractNameWidth),
       blob_capacity |-> SecretBlobCapacity,
       blob_len |-> blob_len,
       blob |-> blob,
       tx_blob_count |-> tx_blob_count,
       success |-> JsNumber(1),
       password |-> password])

(***************************************************************************)
(* BlobBuilder (check_secret)                                              *)
(***************************************************************************)

\* hash_password(password), run to its end.
hash_password(password) == sha256(stringToBytes(password))

\* build_blob(identity, password), run to its end.
build_blob(identity, password) ==
  LET hashed_password_bytes == sha256(stringToBytes(password))
      id_prefix == stringToBytes(identity \o <<Colon>>)
      extended_id == id_prefix \o hashed_password_bytes
      stored_hash == sha256(extended_id)
  IN [contract_name |-> check_secret_name, data |-> stored_hash]

NoResult == Throw(<<>>)

(***************************************************************************)
(* The builders are async functions.  An invocation is a frame: the        *)
(* function and its arguments, the await it is suspended at (pc) with the  *)
(* argument of the request it awaits, its local values, and, once pc is    *)
(* "done", what its promise settled to.  <f>Called is the function up to   *)
(* its first await, <f>Resumed the function from the await it is suspended *)
(* at to the next one (or to its end), given what the await produced.      *)
(***************************************************************************)
IdleFrame ==
  [fn |-> "none", args |-> <<>>, pc |-> "idle", awaited |-> <<>>, locals |-> <<>>,
   result |-> NoResult]
Suspended(fn, args, pc, awaited, locals) ==
  [fn |-> fn, args |-> args, pc |-> pc, awaited |-> awaited, locals |-> locals,
   result |-> NoResult]
Settled(fn, args, result) ==
  [fn |-> fn, args |-> args, pc |-> "done", awaited |-> <<>>, locals |-> <<>>,
   result |-> result]
\* The awaits of crypto.subtle.digest.
DigestAwaits == {"sha256(password)", "sha256(extended_id)"}

hash_passwordCalled(password) ==
  Suspended("hash_password", <<password>>, "sha256(password)", stringToBytes(password), <<>>)

hash_passwordResumed(frame, digest) == Settled(frame.fn, frame.args, Return(digest))

build_blobCalled(identity, password) ==
  Suspended("build_blob", <<identity, password>>, "sha256(password)",
            stringToBytes(password), <<>>)

\* build_blob as it would be without the ':' between identity and digest.
build_blobResumedNoSeparator(frame, digest) ==
  IF frame.pc = "sha256(password)"
  THEN Suspended(frame.fn, frame.args, "sha256(extended_id)",
                 stringToBytes(frame.args[1]) \o digest, <<>>)
  ELSE Settled(frame.fn, frame.args,
               Return([contract_name |-> check_secret_name, data |-> digest]))

\* After the first digest, hashed_password_bytes, the second is requested,
\* of id_prefix followed by it; after the second, stored_hash, the blob is
\* returned.
build_blobResumed(frame, digest) ==
  IF frame.pc = "sha256(password)"
  THEN Suspended(frame.fn, frame.args, "sha256(extended_id)",
                 stringToBytes(frame.args[1] \o <<Colon>>) \o digest, <<>>)
  ELSE Settled(frame.fn, frame.args,
               Return([contract_name |-> check_secret_name, data |-> digest]))

(***************************************************************************)
(* State                                                                   *)
(***************************************************************************)
RegisterCalls == 1..NumRegisterCalls
ProofCalls == 1..NumProofCalls
ContractNames == {check_secret_name, contract_name}

NoCall == [op |-> "none", done |-> TRUE]
\* A register_contract invocation that has not been called yet.
IdleRegister ==
  [pc |-> "idle", variant |-> "none", circuit |-> "none", lookups |-> <<>>,
   getError |-> "none", keysDerived |-> 0, registerCalls |-> <<>>,
   startedAfter |-> {}, result |-> NoResult]
IdleProof == [pc |-> "idle"]

\* A call of a HyliRecordAssembler function.  The functions are private to
\* their modules: each is called by build_proof_transaction only.
AssemblerCall(op, id, pwd, data, tx, blob_index, tx_blob_count) ==
  [op |-> op, id |-> id, pwd |-> pwd, data |-> data, tx |-> tx,
   blob_index |-> blob_index, tx_blob_count |-> tx_blob_count,
   done |-> FALSE, result |-> NoResult]

\* check_jwt.build_proof_transaction hands generateHyli its own arguments,
\* the stored hash included; check_secret.build_proof_transaction hands
\* generateProverData its identity, transaction hash and blob position, and
\* for pwd and stored_hash the two digests it has computed from its
\* identity and password.
SecretAssemblerCall(op, id, hashed_password_bytes, tx, blob_index, tx_blob_count) ==
  AssemblerCall(op, id, hashed_password_bytes,
                sha256(stringToBytes(id \o <<Colon>>) \o hashed_password_bytes),
                tx, blob_index, tx_blob_count)

AssemblerCalls ==
  {AssemblerCall("generateHyli", id, <<>>, data, tx, bi, n) :
     id \in Identities, data \in JwtBlobData, tx \in TxHashes,
     bi \in BlobIndexes, n \in BlobCounts}
  \cup
  {SecretAssemblerCall(op, id, sha256(stringToBytes(password)), tx, bi, n) :
     op \in {"generateProverData", "generateProverDataEarlier"},
     id \in Identities, password \in Passwords,
     tx \in TxHashes, bi \in BlobIndexes, n \in BlobCounts}

\* The calls of the check_secret BlobBuilder functions a caller can make.
BlobCalls ==
  {[op |-> "hash_password", password |-> password, frame |-> IdleFrame,
    done |-> FALSE, result |-> NoResult] : password \in Passwords}
  \cup
  {[op |-> "build_blob", identity |-> identity, password |-> password,
    frame |-> IdleFrame, done |-> FALSE, result |-> NoResult] :
     identity \in Identities, password \in Passwords}

\* A caller is about to make one call of a pure library function.
Init ==
  /\ call \in AssemblerCalls \cup BlobCalls
  /\ node = [registered |-> {}]
  /\ reg = [i \in RegisterCalls |-> IdleRegister]
  /\ bpt = [j \in ProofCalls |-> IdleProof]

Finish(result) ==
  /\ call' = [call EXCEPT !.done = TRUE, !.result = result]
  /\ UNCHANGED <<node, reg, bpt>>

CallGenerateHyli ==
  /\ call.op = "generateHyli" /\ ~call.done
  /\ Finish(generateHyli(call.id, call.data, call.tx, call.blob_index, call.tx_blob_count))

CallGenerateProverData ==
  /\ call.op = "generateProverData" /\ ~call.done
  /\ Finish(generateProverData(call.id, call.pwd, call.data, call.tx,
                               call.blob_index, call.tx_blob_count))

CallGenerateProverDataEarlier ==
  /\ call.op = "generateProverDataEarlier" /\ ~call.done
  /\ Finish(generateProverDataEarlier(call.id, call.pwd, call.data, call.tx,
                                      call.blob_index, call.tx_blob_count))

\* The invocation the caller made is at `frame`: the caller has its result
\* once the frame is done.
Enter(frame) ==
  /\ call' = [call EXCEPT !.frame = frame, !.done = (frame.pc = "done"),
                          !.result = frame.result]
  /\ UNCHANGED <<node, reg, bpt>>

\* hash_password is called: it runs up to its await.
CallHashPassword ==
  /\ call.op = "hash_password" /\ call.frame.pc = "idle"
  /\ Enter(hash_passwordCalled(call.password))

\* The digest hash_password awaits arrives.
HashPasswordResumes ==
  /\ call.op = "hash_password" /\ call.frame.pc \in DigestAwaits
  /\ Enter(hash_passwordResumed(call.frame, sha256(call.frame.awaited)))

\* build_blob is called: it runs up to its first await.
CallBuildBlob ==
  /\ call.op = "build_blob" /\ call.frame.pc = "idle"
  /\ Enter(build_blobCalled(call.identity, call.password))

\* The digest build_blob awaits arrives.
BuildBlobResumes ==
  /\ call.op = "build_blob" /\ call.frame.pc \in DigestAwaits
  /\ Enter(build_blobResumed(call.frame, sha256(call.frame.awaited)))

Next ==
  \/ CallGenerateHyli
  \/ CallGenerateProverData
  \/ CallGenerateProverDataEarlier
  \/ CallHashPassword
  \/ HashPasswordResumes
  \/ CallBuildBlob
  \/ BuildBlobResumes

Spec == Init /\ [][Next]_vars

(***************************************************************************)
(* Properties of the HyliRecordAssembler and of the BlobBuilder.  They     *)
(* speak about the call a caller has made (call.done) and its result.      *)
(***************************************************************************)
IsAssemblerCall ==
  call.op \in {"generateHyli", "generateProverData", "generateProverDataEarlier"}
IsSecretAssemblerCall ==
  call.op \in {"generateProverData", "generateProverDataEarlier"}
\* The assembler returned a record (it did not throw).
Returned == IsAssemblerCall /\ call.done /\ call.result.ok
Threw == IsAssemblerCall /\ call.done /\ ~call.result.ok
\* The HyliOutput record inside what the assembler returned.
Hyli ==
  IF call.op = "generateProverData" THEN call.result.value.hyli_output
  ELSE call.result.value
\* blob_capacity of the variant the call belongs to.
CapacityOfCall == IF call.op = "generateHyli" THEN 512 ELSE 32

(***************************************************************************)
(* C2.  The assembler (generateHyli for check_jwt, generateProverData for  *)
(* check_secret) fails whenever the blob data is longer than blob_capacity *)
(* (512 resp. 32): it throws, so there is no record, truncated or not, to  *)
(* hand to circuit execution.                                              *)
(***************************************************************************)
C2_OversizedBlobRejected ==
  (IsAssemblerCall /\ call.done /\ Len(call.data) > CapacityOfCall) => ~call.result.ok

\* generateHyli was given a stored hash of 513 bytes, one more than the
\* capacity, and threw.
C2_Witness ==
  /\ call.op = "generateHyli" /\ call.done
  /\ Len(call.data) = 513
  /\ ~call.result.ok

(***************************************************************************)
(* C3 as stated.  Assembling with blob data whose length equals            *)
(* blob_capacity (32 for check_secret, 512 for check_jwt) always succeeds  *)
(* and adds no padding bytes.  (The check_secret assembler also receives   *)
(* the password digest; it is taken to be well formed, 32 bytes.)          *)
(***************************************************************************)
C3_Original_FullCapacityBlobAccepted ==
  (/\ IsAssemblerCall /\ call.done
   /\ Len(call.data) = CapacityOfCall
   /\ IsSecretAssemblerCall => Len(call.pwd) = 32)
  => (call.result.ok /\ Hyli.blob = call.data)

(***************************************************************************)
(* C3 amended.  check_secret: 32 bytes of blob data (capacity 32) with a   *)
(* 32-byte password digest always succeed, and the blob is the data with   *)
(* no padding.  check_jwt: the assembler succeeds exactly when the data is *)
(* 306 bytes long, and then pads it with 206 zero entries to 512; data of  *)
(* 512 bytes, the capacity, is rejected.                                   *)
(***************************************************************************)
C3_FixedLengthBlobAccepted ==
  /\ (IsSecretAssemblerCall /\ call.done /\ Len(call.data) = 32 /\ Len(call.pwd) = 32)
       => (call.result.ok /\ Hyli.blob = call.data)
  /\ (call.op = "generateHyli" /\ call.done)
       => /\ call.result.ok <=> (Len(call.data) = 306)
          /\ call.result.ok =>
               /\ Len(Hyli.blob) = 512
               /\ \A i \in 1..306 : Hyli.blob[i] = call.data[i]
               /\ \A i \in 307..512 : Hyli.blob[i] = 0

\* generateHyli was given 512 bytes and threw.
C3_Witness ==
  /\ call.op = "generateHyli" /\ call.done
  /\ Len(call.data) = 512
  /\ ~call.result.ok

(***************************************************************************)
(* C4.  In every HyliOutput record the assembler returns, blob_len is the  *)
(* true length of the supplied blob data, blob_len <= blob_capacity,       *)
(* blob[i] is the supplied byte for i < blob_len and blob[i] = 0 for       *)
(* blob_len <= i < blob_capacity.                                          *)
(***************************************************************************)
C4_BlobLenIsDataLength ==
  Returned =>
    /\ Hyli.blob_len = Len(call.data)
    /\ Hyli.blob_len <= Hyli.blob_capacity
    /\ \A i \in 1..Hyli.blob_len : Hyli.blob[i] = call.data[i]
    /\ \A i \in (Hyli.blob_len + 1)..Hyli.blob_capacity : Hyli.blob[i] = 0

\* generateHyli returned a record for a stored hash of 306 bytes: blob_len
\* is 306 and blob is the hash followed by 206 zero entries.
C4_Witness ==
  /\ Returned /\ call.op = "generateHyli"
  /\ Len(call.data) = 306 /\ call.data[1] # 0
  /\ Hyli.blob_len = 306 /\ Hyli.blob_capacity = 512
  /\ Hyli.blob[306] = call.data[306] /\ Hyli.blob[307] = 0 /\ Hyli.blob[512] = 0

(***************************************************************************)
(* C5.  In every HyliOutput record the assembler returns, identity_len is  *)
(* the byte length (UTF-8) of the identity before padding, for every       *)
(* identity, non-ASCII ones and ones of 256 or more characters included.   *)
(***************************************************************************)
C5_IdentityLenIsByteLength ==
  Returned => Hyli.identity_len = Len(stringToBytes(call.id))

(***************************************************************************)
(* C6.  In every HyliOutput record the assembler returns, every position   *)
(* of identity, tx_hash and blob_contract_name at or beyond the unpadded   *)
(* length holds the zero byte 0x00.                                        *)
(***************************************************************************)
NameOfCall == IF call.op = "generateHyli" THEN contract_name ELSE check_secret_name

TailsAre(c) ==
  /\ \A i \in (Len(call.id) + 1)..Len(Hyli.identity) : Hyli.identity[i] = c
  /\ \A i \in (Len(call.tx) + 1)..Len(Hyli.tx_hash) : Hyli.tx_hash[i] = c
  /\ \A i \in (Len(NameOfCall) + 1)..Len(Hyli.blob_contract_name) :
       Hyli.blob_contract_name[i] = c

\* C6: the padded tails of the three string fields are zero bytes.
C6_Original_StringTailsAreZeroBytes == Returned => TailsAre(0)

(***************************************************************************)
(* C7.  Every HyliOutput record the assembler returns has the fixed-width  *)
(* layout: identity of exactly 256 characters, tx_hash of exactly 64,      *)
(* blob_contract_name of exactly 256 and blob of exactly blob_capacity     *)
(* entries, also for an identity longer than 256 or a transaction hash     *)
(* longer than 64 characters.                                              *)
(***************************************************************************)
C7_FixedWidthLayout ==
  Returned =>
    /\ Len(Hyli.identity) = 256
    /\ Len(Hyli.tx_hash) = 64
    /\ Len(Hyli.blob_contract_name) = 256
    /\ Len(Hyli.blob) = CapacityOfCall

(***************************************************************************)
(* C8.  Every HyliOutput record the assembler returns carries version = 1, *)
(* initial_state = next_state = [0,0,0,0], blob_number = 1 and success =   *)
(* boolean true, in both variants.                                         *)
(***************************************************************************)
FixedFields ==
  /\ Hyli.version = 1
  /\ Hyli.initial_state = <<0, 0, 0, 0>>
  /\ Hyli.next_state = <<0, 0, 0, 0>>
  /\ Hyli.blob_number = 1

\* C8: the fixed fields, success being the boolean true.
C8_Original_SuccessIsBooleanTrue ==
  Returned => (FixedFields /\ Hyli.success.typeof = "boolean" /\ Hyli.success.num = 1)

(***************************************************************************)
(* C9.  check_secret.build_blob(identity, password) returns a Blob with    *)
(* contract_name "check_secret" and data = sha256(utf8(identity) || ':' || *)
(* sha256(utf8(password))), exactly 32 bytes long.                         *)
(***************************************************************************)
C9_BuildBlobIsStoredHash ==
  (call.op = "build_blob" /\ call.done) =>
    LET blob == call.result.value IN
      /\ blob.contract_name = <<99, 104, 101, 99, 107, 95, 115, 101, 99, 114, 101, 116>>
      /\ blob.data = Digest(stringToBytes(call.identity) \o <<58>>
                              \o Digest(stringToBytes(call.password)))
      /\ Len(blob.data) = 32

\* build_blob("alice", "secret123") returned sha256("alice:" || sha256("secret123")).
C9_Witness ==
  /\ call.op = "build_blob" /\ call.done
  /\ call.identity = Alice /\ call.password = Secret123
  /\ call.result.value.data =
       <<71, 8, 23, 11, 213, 147, 197, 8, 160, 13, 107, 50, 87, 179, 201, 194,
         208, 76, 115, 248, 186, 1, 175, 13, 7, 222, 244, 55, 41, 30, 103, 61>>

(***************************************************************************)
(* ContractRegistrar: register_contract(node, circuit) of check_secret and *)
(* of check_jwt.  Each invocation is a chain of promises; it advances when *)
(* the promise it awaits settles, so invocations interleave at their       *)
(* awaits.  The node and the proof backend are external: getContract       *)
(* resolves for a registered name and otherwise rejects with NotFoundError,*)
(* and every request can fail in transport.                                *)
(***************************************************************************)
Variants == {"check_secret", "check_jwt"}
VariantName(variant) == IF variant = "check_jwt" THEN contract_name ELSE check_secret_name
defaultCircuit(variant) ==
  IF variant = "check_jwt" THEN "check_jwt.json" ELSE "check_secret.json"
Circuits(variant) == {defaultCircuit(variant), "custom.json"}

\* backend.getVerificationKey() of new UltraHonkBackend(circuit.bytecode):
\* the key is a function of the circuit alone.
VerificationKey(circuit) ==
  IF circuit = "check_jwt.json" THEN <<1, 0, 7>>
  ELSE IF circuit = "check_secret.json" THEN <<2, 0, 9>>
  ELSE <<3, 1, 4>>

Undefined == [typeof |-> "undefined"]

InitRegistrar ==
  /\ call = NoCall
  /\ node \in {[registered |-> r] : r \in SUBSET ContractNames}
  /\ reg = [i \in RegisterCalls |-> IdleRegister]
  /\ bpt = [j \in ProofCalls |-> IdleProof]

\* register_contract is called: it calls node.getContract(<its contract name>).
\* (startedAfter: the invocations that had completed by then.)
RegisterContractCalled(i) ==
  /\ reg[i].pc = "idle"
  /\ \E variant \in Variants : \E circuit \in Circuits(variant) :
       reg' = [reg EXCEPT ![i] = [@ EXCEPT !.pc = "getContract",
                                           !.variant = variant,
                                           !.circuit = circuit,
                                           !.lookups = <<VariantName(variant)>>,
                                           !.startedAfter =
                                              {k \in RegisterCalls : reg[k].pc = "done"}]]
  /\ UNCHANGED <<call, node, bpt>>

\* The lookup resolving as it would be if the handler were attached with
\* .finally instead of .catch: the key is derived on success too.
GetContractResolvesDerivesKey(i) ==
  /\ reg[i].pc = "getContract"
  /\ reg[i].lookups[1] \in node.registered
  /\ reg' = [reg EXCEPT ![i] = [@ EXCEPT !.pc = "getVerificationKey",
                                         !.keysDerived = @ + 1]]
  /\ UNCHANGED <<call, node, bpt>>

\* The lookup resolving as it would be if registration were not conditional:
\* node.registerContract is called after a successful lookup.
GetContractResolvesRegisters(i) ==
  /\ reg[i].pc = "getContract"
  /\ reg[i].lookups[1] \in node.registered
  /\ reg' = [reg EXCEPT ![i] =
       [@ EXCEPT !.pc = "registerContract",
                 !.registerCalls =
                    Append(@, [verifier |-> "noir", program_id |-> <<>>,
                               state_commitment |-> <<0, 0, 0, 0>>,
                               contract_name |-> reg[i].lookups[1]])]]
  /\ UNCHANGED <<call, node, bpt>>

\* The lookup resolves: check_jwt maps the contract to undefined with
\* .then(() => undefined), check_secret awaits it and returns nothing; the
\* catch handler does not run.
GetContractResolves(i) ==
  /\ reg[i].pc = "getContract"
  /\ reg[i].lookups[1] \in node.registered
  /\ reg' = [reg EXCEPT ![i] = [@ EXCEPT !.pc = "done", !.result = Return(Undefined)]]
  /\ UNCHANGED <<call, node, bpt>>

\* What the handler passed to .catch does with the rejection `e` of the lookup:
\* `.catch(async () => {...})` takes no argument and tests nothing, so it
\* starts the registration: new UltraHonkBackend(circuit.bytecode) and
\* backend.getVerificationKey().
CatchLookupFailure(r, e) ==
  [r EXCEPT !.pc = "getVerificationKey", !.getError = e, !.keysDerived = @ + 1]

\* The lookup rejects: with NotFoundError when the name is not registered,
\* or with a transport error.
GetContractRejects(i) ==
  /\ reg[i].pc = "getContract"
  /\ \E e \in {"NotFoundError", "NetworkError"} :
       /\ e = "NotFoundError" => reg[i].lookups[1] \notin node.registered
       /\ reg' = [reg EXCEPT ![i] = CatchLookupFailure(@, e)]
  /\ UNCHANGED <<call, node, bpt>>

\* The descriptor as it would be if both variants registered under the
\* exported contract_name and committed to an empty state.
ContractDescriptorSharedName(variant, vk) ==
  [verifier |-> "noir", program_id |-> vk, state_commitment |-> <<>>,
   contract_name |-> contract_name]

\* The descriptor register_contract passes to node.registerContract.
ContractDescriptor(variant, vk) ==
  [verifier |-> "noir", program_id |-> vk, state_commitment |-> <<0, 0, 0, 0>>,
   contract_name |-> VariantName(variant)]

\* The key arrives: the handler calls node.registerContract(contract).
VerificationKeyResolves(i) ==
  /\ reg[i].pc = "getVerificationKey"
  /\ reg' = [reg EXCEPT ![i] =
       [@ EXCEPT !.pc = "registerContract",
                 !.registerCalls =
                    Append(@, ContractDescriptor(reg[i].variant,
                                                 VerificationKey(reg[i].circuit)))]]
  /\ UNCHANGED <<call, node, bpt>>

\* The backend fails: the handler's promise rejects with the backend's error.
VerificationKeyRejects(i) ==
  /\ reg[i].pc = "getVerificationKey"
  /\ reg' = [reg EXCEPT ![i] = [@ EXCEPT !.pc = "done", !.result = Throw("BackendError")]]
  /\ UNCHANGED <<call, node, bpt>>

\* The node registers the contract: check_jwt returns contract.program_id,
\* check_secret returns nothing.
RegisterContractResolves(i) ==
  /\ reg[i].pc = "registerContract"
  /\ LET contract == reg[i].registerCalls[Len(reg[i].registerCalls)]
     IN /\ node' = [node EXCEPT !.registered = @ \cup {contract.contract_name}]
        /\ reg' = [reg EXCEPT ![i] =
             [@ EXCEPT !.pc = "done",
                       !.result = IF reg[i].variant = "check_jwt"
                                    THEN Return(contract.program_id)
                                    ELSE Return(Undefined)]]
  /\ UNCHANGED <<call, bpt>>

\* The registration request failing as it would be if the handler sent the
\* registration a second time before giving up.
RegisterContractRejectsRetries(i) ==
  /\ reg[i].pc = "registerContract"
  /\ reg' = [reg EXCEPT ![i] =
       IF Len(reg[i].registerCalls) < 2
       THEN [@ EXCEPT !.registerCalls = Append(@, reg[i].registerCalls[1])]
       ELSE [@ EXCEPT !.pc = "done", !.result = Throw("RegisterError")]]
  /\ UNCHANGED <<call, node, bpt>>

\* The registration request fails: the error reaches the caller.
RegisterContractRejects(i) ==
  /\ reg[i].pc = "registerContract"
  /\ reg' = [reg EXCEPT ![i] = [@ EXCEPT !.pc = "done", !.result = Throw("RegisterError")]]
  /\ UNCHANGED <<call, node, bpt>>

NextRegistrar ==
  \E i \in RegisterCalls :
    \/ RegisterContractCalled(i)
    \/ GetContractResolves(i)
    \/ GetContractRejects(i)
    \/ VerificationKeyResolves(i)
    \/ VerificationKeyRejects(i)
    \/ RegisterContractResolves(i)
    \/ RegisterContractRejects(i)

SpecRegistrar == InitRegistrar /\ [][NextRegistrar]_vars

(***************************************************************************)
(* C1.  In register_contract only a "not found" outcome of getContract     *)
(* triggers registration: after any other getContract failure the          *)
(* invocation derives no key, never calls registerContract, and ends by    *)
(* rejecting with the original error.                                      *)
(***************************************************************************)
C1_OnlyNotFoundTriggersRegistration ==
  \A i \in RegisterCalls :
    (reg[i].getError \notin {"none", "NotFoundError"}) =>
      /\ reg[i].pc \notin {"getVerificationKey", "registerContract"}
      /\ reg[i].registerCalls = <<>>
      /\ reg[i].pc = "done" =>
           (~reg[i].result.ok /\ reg[i].result.error = reg[i].getError)

\* The invocation's getContract succeeded and the invocation completed.
LookupSucceeded(i) == reg[i].pc = "done" /\ reg[i].getError = "none"

(***************************************************************************)
(* C19.  When node.getContract succeeds (the contract is already           *)
(* registered), register_contract makes no registerContract call and       *)
(* derives no verification key; registerContract is only ever called after *)
(* that invocation's getContract has failed.                               *)
(***************************************************************************)
C19_NoRegistrationAfterSuccessfulLookup ==
  \A i \in RegisterCalls :
    /\ LookupSucceeded(i) =>
         (reg[i].keysDerived = 0 /\ reg[i].registerCalls = <<>> /\ reg[i].result.ok)
    /\ (reg[i].keysDerived > 0 \/ reg[i].registerCalls # <<>>
           \/ reg[i].pc \in {"getVerificationKey", "registerContract"})
         => reg[i].getError # "none"

\* One invocation found its contract registered and completed, while another
\* had registered a contract after a failed lookup.
C19_Witness ==
  \E i, k \in RegisterCalls :
    /\ LookupSucceeded(i) /\ reg[i].registerCalls = <<>>
    /\ reg[k].pc = "done" /\ Len(reg[k].registerCalls) = 1

\* Invocation k was called after invocation i had completed; i did the same
\* contract's lookup, got NotFoundError and its backend derived the key;
\* k's lookup succeeded and k completed.
TwiceInSequence(i, k) ==
  /\ reg[k].pc = "done" /\ i \in reg[k].startedAfter
  /\ reg[i].variant = reg[k].variant
  /\ reg[i].getError = "NotFoundError"
  /\ reg[i].result.ok \/ reg[i].result.error # "BackendError"
  /\ reg[k].getError = "none"

(***************************************************************************)
(* C20.  Calling register_contract twice in sequence against a ledger      *)
(* whose first getContract returns NotFoundError and whose second          *)
(* getContract succeeds results in exactly one registerContract call in    *)
(* total.  (The ledger's answers are the scenario's only failure: the      *)
(* backend derives the verification key.)                                  *)
(***************************************************************************)
C20_TwoCallsOneRegistration ==
  \A i, k \in RegisterCalls :
    TwiceInSequence(i, k) =>
      Len(reg[i].registerCalls) + Len(reg[k].registerCalls) = 1

\* The first invocation registered check_secret; the second, called after
\* it, found the contract and registered nothing.
C20_Witness ==
  \E i, k \in RegisterCalls :
    /\ TwiceInSequence(i, k)
    /\ reg[i].variant = "check_secret"
    /\ Len(reg[i].registerCalls) = 1 /\ reg[k].registerCalls = <<>>
    /\ reg[i].result.ok /\ reg[k].result.ok

(***************************************************************************)
(* C21.  Whenever register_contract registers, the descriptor passed to    *)
(* registerContract is exactly {verifier: "noir", program_id: the          *)
(* verification-key bytes of the given circuit, state_commitment:          *)
(* [0,0,0,0], contract_name: "check_secret" resp. "check_jwt"}, and that   *)
(* contract_name is the name used in the preceding getContract lookup.     *)
(***************************************************************************)
C21_RegisteredDescriptor ==
  \A i \in RegisterCalls :
    \A n \in 1..Len(reg[i].registerCalls) :
      LET contract == reg[i].registerCalls[n]
      IN /\ DOMAIN contract =
              {"verifier", "program_id", "state_commitment", "contract_name"}
         /\ contract.verifier = "noir"
         /\ contract.program_id = VerificationKey(reg[i].circuit)
         /\ contract.state_commitment = <<0, 0, 0, 0>>
         /\ contract.contract_name =
              (IF reg[i].variant = "check_jwt"
                 THEN <<99, 104, 101, 99, 107, 95, 106, 119, 116>>
                 ELSE <<99, 104, 101, 99, 107, 95, 115, 101, 99, 114, 101, 116>>)
         /\ Len(reg[i].lookups) = 1
         /\ contract.contract_name = reg[i].lookups[1]

\* Both variants have registered, one of them with a circuit that is not its
\* default.
C21_Witness ==
  \E i, k \in RegisterCalls :
    /\ reg[i].variant = "check_secret" /\ reg[k].variant = "check_jwt"
    /\ Len(reg[i].registerCalls) = 1 /\ Len(reg[k].registerCalls) = 1
    /\ reg[i].circuit = "custom.json"
    /\ reg[i].pc = "done" /\ reg[k].pc = "done"

\* The number of registerContract calls made by invocations 1..n.
RECURSIVE TotalRegisterCalls(_)
TotalRegisterCalls(n) ==
  IF n = 0 THEN 0 ELSE TotalRegisterCalls(n - 1) + Len(reg[n].registerCalls)

(***************************************************************************)
(* C25.  In every interleaving of concurrent register_contract             *)
(* invocations, each invocation calls getContract exactly once and         *)
(* registerContract at most once, and calls registerContract only after    *)
(* its own getContract has completed with a failure; the total number of   *)
(* registerContract calls never exceeds the number of invocations whose    *)
(* getContract failed.                                                     *)
(***************************************************************************)
C25_OneLookupAtMostOneRegistration ==
  /\ \A i \in RegisterCalls :
       /\ Len(reg[i].lookups) = (IF reg[i].pc = "idle" THEN 0 ELSE 1)
       /\ Len(reg[i].registerCalls) <= 1
       /\ Len(reg[i].registerCalls) = 1 =>
            (reg[i].pc \in {"registerContract", "done"} /\ reg[i].getError # "none")
       /\ reg[i].pc = "getContract" => reg[i].getError = "none"
  /\ TotalRegisterCalls(NumRegisterCalls)
       <= Cardinality({i \in RegisterCalls : reg[i].getError # "none"})

\* Two invocations of the same variant raced: both lookups failed before
\* either registered, and both sent one registration.
C25_Witness ==
  \E i, k \in RegisterCalls :
    /\ i # k /\ reg[i].variant = reg[k].variant
    /\ reg[i].pc = "done" /\ reg[k].pc = "done"
    /\ i \notin reg[k].startedAfter /\ k \notin reg[i].startedAfter
    /\ reg[i].getError = "NotFoundError" /\ reg[k].getError = "NotFoundError"
    /\ Len(reg[i].registerCalls) = 1 /\ Len(reg[k].registerCalls) = 1
    /\ TotalRegisterCalls(NumRegisterCalls) = 2

(***************************************************************************)
(* ProofPipeline: check_secret.build_proof_transaction(identity, password, *)
(* tx_hash, blob_index, tx_blob_count, circuit).  An invocation advances   *)
(* when the promise it awaits settles.  The circuit executor (noir) and    *)
(* the proof backend are external: each request resolves or rejects.       *)
(***************************************************************************)
ProofVersions == {"earlier", "current"}
ProofIdentities == {Alice, <<233>>}
ProofPasswords == {Secret123, <<>>}
ProofTxHash == [i \in 1..TxHashWidth |-> HexChar((7 * i) % 16)]
ProofBlobPositions == {<<MaxBlobIndex, MaxBlobIndex + 1>>}

\* Number.prototype.toString(16) of a non-negative integer, as characters.
RECURSIVE toString16(_)
toString16(n) ==
  IF n < 16 THEN <<HexChar(n)>> ELSE Append(toString16(n \div 16), HexChar(n % 16))

\* String.prototype.padStart(targetLength, "0")
padStart(s, targetLength) ==
  IF Len(s) >= targetLength THEN s
  ELSE [i \in 1..targetLength |->
          IF i <= targetLength - Len(s) THEN PadChar ELSE s[i - (targetLength - Len(s))]]

\* parseInt(pair, 16) as stored in a Uint8Array, for two characters of a
\* padded BigInt text: hexadecimal digits, or a "-" and a digit (minus the
\* digit, modulo 256), or a digit and a "-" (the digit).
ByteOfPair(pair) ==
  IF pair[1] = 45 THEN (256 - HexDigitValue(pair[2])) % 256
  ELSE IF pair[2] = 45 THEN HexDigitValue(pair[1])
  ELSE (16 * HexDigitValue(pair[1])) + HexDigitValue(pair[2])

\* The bytes of sanitisedHex, two characters a byte: new Uint8Array(len)
\* has the integer part of len elements.
BytesOfHex(sanitisedHex) ==
  [i \in 1..(Len(sanitisedHex) \div 2) |-> ByteOfPair(SubSeq(sanitisedHex, (2 * i) - 1, 2 * i))]

\* hexToUint8Array as it would be with the least significant byte first.
hexToUint8ArrayLittleEndian(hex) ==
  LET Reversed(bytes) == [i \in 1..Len(bytes) |-> bytes[Len(bytes) + 1 - i]]
      Converted(value) ==
        IF value.ok
        THEN Return(Reversed(BytesOfHex(padStart(BigIntToString16(value.value), 64))))
        ELSE value
  IN Converted(BigInt(hex))

\* hexToUint8Array(hex): BigInt(hex), which throws a SyntaxError unless hex
\* denotes an integer, as 64 hexadecimal digits or more, two per byte.
hexToUint8Array(hex) ==
  LET Converted(value) ==
        IF value.ok
        THEN Return(BytesOfHex(padStart(BigIntToString16(value.value), 64)))
        ELSE value
  IN Converted(BigInt(hex))

\* flattenUint8Arrays as it would be if `offset` were never advanced: every
\* array is written at the start of the result, whose length is the total.
RECURSIVE Overwritten(_, _)
Overwritten(result, arrays) ==
  IF arrays = <<>> THEN result
  ELSE Overwritten([i \in 1..Len(result) |->
                      IF i <= Len(Head(arrays)) THEN Head(arrays)[i] ELSE result[i]],
                   Tail(arrays))
RECURSIVE TotalLength(_)
TotalLength(arrays) ==
  IF arrays = <<>> THEN 0 ELSE Len(Head(arrays)) + TotalLength(Tail(arrays))
flattenUint8ArraysOffsetZero(arrays) ==
  Overwritten([i \in 1..TotalLength(arrays) |-> 0], arrays)

\* flattenUint8Arrays(arrays): the arrays one after the other.
RECURSIVE flattenUint8Arrays(_)
flattenUint8Arrays(arrays) ==
  IF arrays = <<>> THEN <<>> ELSE Head(arrays) \o flattenUint8Arrays(Tail(arrays))

\* flattenFieldsAsArray(fields): fields.map(hexToUint8Array) throws what the
\* first failing conversion throws.
flattenFieldsAsArray(fields) ==
  LET Flattened(arrays) ==
        IF \A i \in 1..Len(arrays) : arrays[i].ok
        THEN Return(flattenUint8Arrays([i \in 1..Len(arrays) |-> arrays[i].value]))
        ELSE arrays[CHOOSE i \in 1..Len(arrays) :
                      ~arrays[i].ok /\ \A h \in 1..(i - 1) : arrays[h].ok]
  IN Flattened([i \in 1..Len(fields) |-> hexToUint8Array(fields[i])])

\* reconstructHonkProof(publicInputs, proof) is imported from @aztec/bb.js.
\* It is the reconstruction of the canonical proof bytes: the encoded public
\* inputs first, then the proof bytes of the backend.
reconstructHonkProof(publicInputs, proof) == publicInputs \o proof

\* A field element as the backend prints it: "0x" and 64 hexadecimal digits,
\* here the digits `low` after leading zeros.
FieldString(low) ==
  <<48, 120>> \o [i \in 1..64 |->
                   IF i <= 64 - Len(low) THEN 48 ELSE HexChar(low[i - (64 - Len(low))])]

NoBackendProof == [publicInputs |-> <<>>, proof |-> <<>>]

\* The hexadecimal digits of r - 1, r the order of the BN254 scalar field
\* (0x30644e72...f0000001): the largest field element.
LargestFieldElement ==
  <<3, 0, 6, 4, 4, 14, 7, 2, 14, 1, 3, 1, 10, 0, 2, 9, 11, 8, 5, 0, 4, 5, 11, 6, 8, 1, 8, 1,
    5, 8, 5, 13, 2, 8, 3, 3, 14, 8, 4, 8, 7, 9, 11, 9, 7, 0, 9, 1, 4, 3, 14, 1, 15, 5, 9, 3,
    15, 0, 0, 0, 0, 0, 0, 0>>
\* The largest value of 32 bytes.
Largest32Bytes == [i \in 1..64 |-> 15]

\* What backend.generateProof(witness) resolves with: the proof bytes and
\* the public inputs, field elements as big-integer-valued strings.  The
\* strings are "0x1", "0x00ff" and the decimal "255"; of 64 hexadecimal
\* digits 0x...0102, 0x...ab, zero, the largest field element and, beyond
\* the field, the largest value of 32 bytes; there are none, one, two or
\* three of them, with proof bytes or (but for no inputs) without.
BackendProofs ==
  {[publicInputs |-> <<<<48, 120, 49>>>>, proof |-> <<7, 7>>],
   [publicInputs |-> <<<<48, 120, 49>>, <<48, 120, 48, 48, 102, 102>>>>, proof |-> <<>>],
   [publicInputs |-> <<FieldString(<<1, 0, 2>>), FieldString(<<10, 11>>)>>, proof |-> <<0, 9>>],
   [publicInputs |-> <<>>, proof |-> <<5>>],
   [publicInputs |-> <<<<50, 53, 53>>>>, proof |-> <<9>>],
   [publicInputs |-> <<FieldString(LargestFieldElement), FieldString(<<>>),
                       FieldString(Largest32Bytes)>>,
    proof |-> <<1, 2, 3>>]}

\* The bytes the pipeline hashes a second time, as it would be without the
\* ':' after the identity.
ExtendedIdNoSeparator(identity, hashed_password_bytes) ==
  stringToBytes(identity) \o hashed_password_bytes

\* encoder.encode(`${identity}:`) followed by the password digest.
ExtendedId(identity, hashed_password_bytes) ==
  stringToBytes(identity \o <<Colon>>) \o hashed_password_bytes

\* The prover inputs of the version of the module the invocation runs.
ProverData(version, id, pwd, stored_hash, tx, blob_index, tx_blob_count) ==
  IF version = "current"
  THEN generateProverData(id, pwd, stored_hash, tx, blob_index, tx_blob_count)
  ELSE generateProverDataEarlier(id, pwd, stored_hash, tx, blob_index, tx_blob_count)

\* The objects the invocations construct: new UltraHonkBackend(bytecode)
\* adds a backend to `instances`, and the invocation keeps its position as
\* the reference it holds in `backend`.  The modules have no variable of
\* their own that an invocation writes.
UltraHonkBackend(bytecode) == [class |-> "UltraHonkBackend", bytecode |-> bytecode]
NoInstances == [op |-> "none", done |-> TRUE, instances |-> <<>>]
Constructed(instance) == [call EXCEPT !.instances = Append(@, instance)]
NewReference == Len(call.instances) + 1

InitProof ==
  /\ call = NoInstances
  /\ node = [registered |-> {}]
  /\ reg = [i \in RegisterCalls |-> IdleRegister]
  /\ bpt = [j \in ProofCalls |-> IdleProof]

\* check_secret.build_proof_transaction up to its first await: new
\* Noir(circuit), new UltraHonkBackend(circuit.bytecode),
\* backend.getVerificationKey().  (trace: the steps the invocation has
\* started, in order; backendRef: its backend among the instances.)
build_proof_transactionCalled(version, identity, password, pos, circuit) ==
  [pc |-> "getVerificationKey", version |-> version,
   identity |-> identity, password |-> password,
   tx_hash |-> ProofTxHash, blob_index |-> pos[1],
   tx_blob_count |-> pos[2], circuit |-> circuit, backendRef |-> NewReference,
   vk |-> <<>>, hashed_password_bytes |-> <<>>, stored_hash |-> <<>>,
   executed |-> <<>>, proved |-> 0, backend |-> NoBackendProof,
   trace |-> <<"getVerificationKey">>, result |-> NoResult]

\* build_proof_transaction is called.
BuildProofTransactionCalled(j) ==
  /\ bpt[j].pc = "idle"
  /\ \E version \in ProofVersions, identity \in ProofIdentities,
        password \in ProofPasswords, pos \in ProofBlobPositions,
        circuit \in Circuits("check_secret") :
       /\ bpt' = [bpt EXCEPT ![j] = build_proof_transactionCalled(version, identity,
                                                                  password, pos, circuit)]
       /\ call' = Constructed(UltraHonkBackend(circuit))
  /\ UNCHANGED <<node, reg>>

\* The key arriving as it would be if the module kept one backend for all
\* invocations, the one constructed first: the key is that of its bytecode.
ProofKeyResolvesSharedBackend(j) ==
  /\ bpt[j].pc = "getVerificationKey"
  /\ bpt' = [bpt EXCEPT ![j] =
               [@ EXCEPT !.pc = "sha256(password)",
                         !.vk = VerificationKey(call.instances[1].bytecode),
                         !.trace = Append(@, "sha256")]]
  /\ UNCHANGED <<call, node, reg>>

\* The key of the invocation's backend arrives;
\* sha256(stringToBytes(password)) is started.
ProofKeyResolves(j) ==
  /\ bpt[j].pc = "getVerificationKey"
  /\ bpt' = [bpt EXCEPT ![j] =
               [@ EXCEPT !.pc = "sha256(password)",
                         !.vk = VerificationKey(call.instances[bpt[j].backendRef].bytecode),
                         !.trace = Append(@, "sha256")]]
  /\ UNCHANGED <<call, node, reg>>

ProofKeyRejects(j) ==
  /\ bpt[j].pc = "getVerificationKey"
  /\ bpt' = [bpt EXCEPT ![j] = [@ EXCEPT !.pc = "done", !.result = Throw("BackendError")]]
  /\ UNCHANGED <<call, node, reg>>

\* The password digest arrives; the identity prefix is encoded, joined with
\* the digest, and sha256(extended_id) is started.
PasswordDigestResolves(j) ==
  /\ bpt[j].pc = "sha256(password)"
  /\ bpt' = [bpt EXCEPT ![j] =
               [@ EXCEPT !.pc = "sha256(extended_id)",
                         !.hashed_password_bytes = sha256(stringToBytes(bpt[j].password)),
                         !.trace = Append(@, "sha256")]]
  /\ UNCHANGED <<call, node, reg>>

\* The invocation `p` once generateProverData has answered `inputs` for its
\* stored hash: noir.execute is called with them, or the throw ends it.
WithProverData(p, stored_hash, inputs) ==
  IF inputs.ok
  THEN [p EXCEPT !.pc = "noir.execute", !.stored_hash = stored_hash,
                 !.executed = Append(@, inputs.value),
                 !.trace = @ \o <<"generateProverData", "noir.execute">>]
  ELSE [p EXCEPT !.pc = "done", !.stored_hash = stored_hash,
                 !.trace = Append(@, "generateProverData"),
                 !.result = inputs]

\* The invocation `p` resumed with its stored hash.
WithStoredHash(p, stored_hash) ==
  WithProverData(p, stored_hash,
                 ProverData(p.version, p.identity, p.hashed_password_bytes,
                            stored_hash, p.tx_hash, p.blob_index, p.tx_blob_count))

\* The stored hash arrives; generateProverData builds the prover inputs and,
\* unless it throws, noir.execute is called with them.
StoredHashResolves(j) ==
  /\ bpt[j].pc = "sha256(extended_id)"
  /\ bpt' = [bpt EXCEPT ![j] =
               WithStoredHash(bpt[j], sha256(ExtendedId(bpt[j].identity,
                                                        bpt[j].hashed_password_bytes)))]
  /\ UNCHANGED <<call, node, reg>>

\* The circuit executes: the witness arrives and backend.generateProof(witness)
\* is called.
ExecuteResolves(j) ==
  /\ bpt[j].pc = "noir.execute"
  /\ bpt' = [bpt EXCEPT ![j] = [@ EXCEPT !.pc = "generateProof", !.proved = @ + 1,
                                         !.trace = Append(@, "generateProof")]]
  /\ UNCHANGED <<call, node, reg>>

\* The circuit rejecting the inputs as it would be if the pipeline retried a
\* failed execution once with the same inputs.
ExecuteRejectsRetries(j) ==
  /\ bpt[j].pc = "noir.execute"
  /\ bpt' = [bpt EXCEPT ![j] =
               IF Len(bpt[j].executed) < 2
               THEN [@ EXCEPT !.executed = Append(@, bpt[j].executed[1]),
                              !.trace = Append(@, "noir.execute")]
               ELSE [@ EXCEPT !.pc = "done", !.result = Throw("ExecutionError")]]
  /\ UNCHANGED <<call, node, reg>>

\* The circuit rejecting the inputs as it would be if the pipeline caught the
\* failure and returned the transaction without a proof.
ExecuteRejectsReturnsPartial(j) ==
  /\ bpt[j].pc = "noir.execute"
  /\ bpt' = [bpt EXCEPT ![j] =
               [@ EXCEPT !.pc = "done",
                         !.result = Return([contract_name |-> check_secret_name,
                                            program_id |-> bpt[j].vk,
                                            verifier |-> "noir", proof |-> <<>>])]]
  /\ UNCHANGED <<call, node, reg>>

\* The circuit rejects the inputs (a failed constraint).
ExecuteRejects(j) ==
  /\ bpt[j].pc = "noir.execute"
  /\ bpt' = [bpt EXCEPT ![j] = [@ EXCEPT !.pc = "done", !.result = Throw("ExecutionError")]]
  /\ UNCHANGED <<call, node, reg>>

\* build_proof_transaction once the backend's proof has arrived: what
\* flattenFieldsAsArray throws, or the ProofTransaction with the
\* reconstructed proof.
ProofTransaction(frame, name, proof, publicInputs) ==
  IF publicInputs.ok
  THEN [frame EXCEPT !.pc = "done", !.backend = proof,
                     !.trace = Append(@, "reconstructHonkProof"),
                     !.result = Return([contract_name |-> name,
                                        program_id |-> frame.vk,
                                        verifier |-> "noir",
                                        proof |-> reconstructHonkProof(publicInputs.value,
                                                                       proof.proof)])]
  ELSE [frame EXCEPT !.pc = "done", !.backend = proof, !.result = publicInputs]

\* The proof arrives: it is reconstructed with its public inputs and the
\* ProofTransaction is returned.
GenerateProofResolves(j) ==
  /\ bpt[j].pc = "generateProof"
  /\ \E proof \in BackendProofs :
       bpt' = [bpt EXCEPT ![j] = ProofTransaction(@, check_secret_name, proof,
                                                  flattenFieldsAsArray(proof.publicInputs))]
  /\ UNCHANGED <<call, node, reg>>

GenerateProofRejects(j) ==
  /\ bpt[j].pc = "generateProof"
  /\ bpt' = [bpt EXCEPT ![j] = [@ EXCEPT !.pc = "done", !.result = Throw("BackendError")]]
  /\ UNCHANGED <<call, node, reg>>

NextProof ==
  \E j \in ProofCalls :
    \/ BuildProofTransactionCalled(j)
    \/ ProofKeyResolves(j)
    \/ ProofKeyRejects(j)
    \/ PasswordDigestResolves(j)
    \/ StoredHashResolves(j)
    \/ ExecuteResolves(j)
    \/ ExecuteRejects(j)
    \/ GenerateProofResolves(j)
    \/ GenerateProofRejects(j)

SpecProof == InitProof /\ [][NextProof]_vars

\* The blob and the private password inside a record handed to noir.execute.
BlobOfInputs(version, inputs) ==
  IF version = "current" THEN inputs.hyli_output.blob ELSE inputs.blob

(***************************************************************************)
(* C10.  For every (identity, password), the blob bytes that               *)
(* check_secret.build_proof_transaction packs into the HyliOutput record   *)
(* handed to circuit execution are byte-identical to                       *)
(* build_blob(identity, password).data, and the private password input is  *)
(* hash_password(password).                                                *)
(***************************************************************************)
C10_PipelineBlobMatchesBuildBlob ==
  \A j \in ProofCalls :
    bpt[j].pc # "idle" =>
      \A k \in 1..Len(bpt[j].executed) :
        /\ BlobOfInputs(bpt[j].version, bpt[j].executed[k])
             = build_blob(bpt[j].identity, bpt[j].password).data
        /\ bpt[j].executed[k].password = hash_password(bpt[j].password)

\* build_proof_transaction("alice", "secret123", ...) handed noir.execute a
\* record whose blob is sha256("alice:" || sha256("secret123")).
C10_Witness ==
  \E j \in ProofCalls :
    /\ bpt[j].pc \in {"noir.execute", "generateProof", "done"}
    /\ bpt[j].identity = Alice /\ bpt[j].password = Secret123
    /\ Len(bpt[j].executed) = 1
    /\ BlobOfInputs(bpt[j].version, bpt[j].executed[1]) =
         <<71, 8, 23, 11, 213, 147, 197, 8, 160, 13, 107, 50, 87, 179, 201, 194,
           208, 76, 115, 248, 186, 1, 175, 13, 7, 222, 244, 55, 41, 30, 103, 61>>
    /\ bpt[j].executed[1].password =
         <<252, 247, 48, 182, 217, 82, 54, 236, 211, 201, 252, 45, 146, 215, 182, 178,
           187, 6, 21, 20, 150, 26, 236, 4, 29, 108, 122, 113, 146, 245, 146, 228>>


(***************************************************************************)
(* JwtBlobBuilder (check_jwt): extract_jwt_claims, build_blob_from_jwt,    *)
(* build_stored_hash and the conversions they use.                         *)
(***************************************************************************)
NonceWidth == 16
MailHashLen == 32

\* The value of one character of the base64 alphabet (A-Z a-z 0-9 + /), or
\* -1 for any other character.
Base64Value(c) ==
  IF c >= 65 /\ c <= 90 THEN c - 65
  ELSE IF c >= 97 /\ c <= 122 THEN c - 71
  ELSE IF c >= 48 /\ c <= 57 THEN c + 4
  ELSE IF c = 43 THEN 62
  ELSE IF c = 47 THEN 63
  ELSE -1

IsAsciiWhitespace(c) == c \in {9, 10, 12, 13, 32}

\* atob(s), the forgiving-base64 decode: ASCII whitespace is dropped, one or
\* two '=' are dropped from the end of data whose length is a multiple of 4,
\* data of length 4n+1 or with a character outside the alphabet is rejected,
\* and the bits left over after the last whole byte are discarded.
atob(s) ==
  LET data == SelectSeq(s, LAMBDA c : ~IsAsciiWhitespace(c))
      n == Len(data)
      pad == IF n % 4 = 0 /\ n > 0 /\ data[n] = 61
             THEN (IF data[n - 1] = 61 THEN 2 ELSE 1)
             ELSE 0
      body == SubSeq(data, 1, n - pad)
      m == Len(body)
      v == [i \in 1..m |-> Base64Value(body[i])]
      Byte(j) ==
        LET q == 4 * ((j - 1) \div 3)
            r == (j - 1) % 3
        IN IF r = 0 THEN (v[q + 1] * 4) + (v[q + 2] \div 16)
           ELSE IF r = 1 THEN ((v[q + 2] % 16) * 16) + (v[q + 3] \div 4)
           ELSE ((v[q + 3] % 4) * 64) + v[q + 4]
  IN IF m % 4 = 1 \/ \E i \in 1..m : v[i] = -1
     THEN Throw("InvalidCharacterError")
     ELSE Return([j \in 1..((m * 6) \div 8) |-> Byte(j)])

\* b64urlToU8(s): '-' becomes '+', '_' becomes '/', then atob and the char
\* codes of the binary string.
b64urlToU8(s) ==
  atob([i \in 1..Len(s) |-> IF s[i] = 45 THEN 43 ELSE IF s[i] = 95 THEN 47 ELSE s[i]])

\* Array.prototype.reverse
reverse(bytes) == [i \in 1..Len(bytes) |-> bytes[Len(bytes) + 1 - i]]

\* bytesToBigInt(bytes): the big-endian value.
bytesToBigInt(bytes) ==
  JsBigInt(FALSE, IF bytes = <<>> THEN <<0>> ELSE StripLeadingZeros(bytes))

\* poseidon_hash(string): bb.poseidon2Hash([new Fr(bytesToBigInt(utf8))]).
\* The Poseidon2 permutation is computed by the Barretenberg backend;
\* `poseidon` is the function from field elements to 32-byte values that
\* the backend computes.  (new Fr(x) takes values below the field modulus:
\* strings of fewer than 32 bytes.)
poseidon_hash(poseidon, string) == poseidon[bytesToBigInt(stringToBytes(string))]

\* build_stored_hash from its await on, as it would be with the modulus
\* bytes in decoding order.
build_stored_hashResumedNotReversed(mail_hash, nonce, pubkey) ==
  LET Pack(encoded, modulus) ==
        LET remaining_len == NonceWidth - Len(encoded)
        IN IF remaining_len < 0 THEN Throw("RangeError")
           ELSE IF ~modulus.ok THEN modulus
           ELSE Return([mail_hash |-> mail_hash,
                        stored_hash |-> mail_hash \o <<Colon>> \o encoded
                                          \o [i \in 1..remaining_len |-> 0]
                                          \o <<Colon>> \o modulus.value])
  IN Pack(NumberToString(nonce), b64urlToU8(pubkey))

\* build_stored_hash(email, nonce, pubkey) from its await of poseidon_hash on,
\* mail_hash being what the await gave.  new Array(remaining_len)
\* throws a RangeError for a negative length; atob throws for a malformed
\* modulus.
build_stored_hashResumed(mail_hash, nonce, pubkey) ==
  LET Pack(encoded, modulus) ==
        LET remaining_len == NonceWidth - Len(encoded)
        IN IF remaining_len < 0 THEN Throw("RangeError")
           ELSE IF ~modulus.ok THEN modulus
           ELSE Return([mail_hash |-> mail_hash,
                        stored_hash |-> mail_hash \o <<Colon>> \o encoded
                                          \o [i \in 1..remaining_len |-> 0]
                                          \o <<Colon>> \o reverse(modulus.value)])
  IN Pack(NumberToString(nonce), b64urlToU8(pubkey))

\* build_stored_hash(email, nonce, pubkey), run to its end.
build_stored_hash(email, nonce, pubkey, poseidon) ==
  build_stored_hashResumed(poseidon_hash(poseidon, email), nonce, pubkey)


\* A JSON member: a string value, or absent (reading it gives undefined).
\* Every JavaScript value the decoded token can hold is [typeof, str]: str
\* is the content of a string, the ToString of a number, the JSON text of
\* true, false or of an object, the elements of an array joined by "," (its
\* ToString).  An array also says whether joining it throws (unjoinable).
JsString(s) == [typeof |-> "string", str |-> s]
Absent == [typeof |-> "undefined", str |-> <<>>]


(***************************************************************************)
(* String.prototype.toLowerCase: the Unicode default case conversion of    *)
(* the string's code points (UnicodeData.txt, SpecialCasing.txt and        *)
(* DerivedCoreProperties.txt): the simple lower-case mappings, U+0130 to   *)
(* "i" and U+0307, and capital sigma to the final form after a cased       *)
(* letter that no cased letter follows.  The tables are those of the       *)
(* runtime's Unicode version: Unicode 15 with the case pairs and the marks *)
(* of the Latin, Cyrillic, Arabic, Garay and Beria Erfe letters that       *)
(* Unicode 16 and 17 add, U+0295 being a letter without case there.        *)
(***************************************************************************)
\* <<first, last, step, offset>>: the code points first, first + step, ...,
\* last map to themselves plus offset.
LowerCaseMappings ==
  <<<<192, 214, 1, 32>>, <<216, 222, 1, 32>>, <<256, 302, 2, 1>>, <<306, 310,
    2, 1>>, <<313, 327, 2, 1>>, <<330, 374, 2, 1>>, <<376, 376, 1, -121>>,
    <<377, 381, 2, 1>>, <<385, 385, 1, 210>>, <<386, 388, 2, 1>>, <<390, 390,
    1, 206>>, <<391, 391, 1, 1>>, <<393, 394, 1, 205>>, <<395, 395, 1, 1>>,
    <<398, 398, 1, 79>>, <<399, 399, 1, 202>>, <<400, 400, 1, 203>>, <<401,
    401, 1, 1>>, <<403, 403, 1, 205>>, <<404, 404, 1, 207>>, <<406, 406, 1,
    211>>, <<407, 407, 1, 209>>, <<408, 408, 1, 1>>, <<412, 412, 1, 211>>,
    <<413, 413, 1, 213>>, <<415, 415, 1, 214>>, <<416, 420, 2, 1>>, <<422,
    422, 1, 218>>, <<423, 423, 1, 1>>, <<425, 425, 1, 218>>, <<428, 428, 1,
    1>>, <<430, 430, 1, 218>>, <<431, 431, 1, 1>>, <<433, 434, 1, 217>>,
    <<435, 437, 2, 1>>, <<439, 439, 1, 219>>, <<440, 440, 1, 1>>, <<444, 444,
    1, 1>>, <<452, 452, 1, 2>>, <<453, 453, 1, 1>>, <<455, 455, 1, 2>>, <<456,
    456, 1, 1>>, <<458, 458, 1, 2>>, <<459, 475, 2, 1>>, <<478, 494, 2, 1>>,
    <<497, 497, 1, 2>>, <<498, 500, 2, 1>>, <<502, 502, 1, -97>>, <<503, 503,
    1, -56>>, <<504, 542, 2, 1>>, <<544, 544, 1, -130>>, <<546, 562, 2, 1>>,
    <<570, 570, 1, 10795>>, <<571, 571, 1, 1>>, <<573, 573, 1, -163>>, <<574,
    574, 1, 10792>>, <<577, 577, 1, 1>>, <<579, 579, 1, -195>>, <<580, 580, 1,
    69>>, <<581, 581, 1, 71>>, <<582, 590, 2, 1>>, <<880, 882, 2, 1>>, <<886,
    886, 1, 1>>, <<895, 895, 1, 116>>, <<902, 902, 1, 38>>, <<904, 906, 1,
    37>>, <<908, 908, 1, 64>>, <<910, 911, 1, 63>>, <<913, 929, 1, 32>>,
    <<931, 939, 1, 32>>, <<975, 975, 1, 8>>, <<984, 1006, 2, 1>>, <<1012,
    1012, 1, -60>>, <<1015, 1015, 1, 1>>, <<1017, 1017, 1, -7>>, <<1018, 1018,
    1, 1>>, <<1021, 1023, 1, -130>>, <<1024, 1039, 1, 80>>, <<1040, 1071, 1,
    32>>, <<1120, 1152, 2, 1>>, <<1162, 1214, 2, 1>>, <<1216, 1216, 1, 15>>,
    <<1217, 1229, 2, 1>>, <<1232, 1326, 2, 1>>, <<1329, 1366, 1, 48>>, <<4256,
    4293, 1, 7264>>, <<4295, 4295, 1, 7264>>, <<4301, 4301, 1, 7264>>, <<5024,
    5103, 1, 38864>>, <<5104, 5109, 1, 8>>, <<7305, 7305, 1, 1>>, <<7312,
    7354, 1, -3008>>, <<7357, 7359, 1, -3008>>, <<7680, 7828, 2, 1>>, <<7838,
    7838, 1, -7615>>, <<7840, 7934, 2, 1>>, <<7944, 7951, 1, -8>>, <<7960,
    7965, 1, -8>>, <<7976, 7983, 1, -8>>, <<7992, 7999, 1, -8>>, <<8008, 8013,
    1, -8>>, <<8025, 8031, 2, -8>>, <<8040, 8047, 1, -8>>, <<8072, 8079, 1,
    -8>>, <<8088, 8095, 1, -8>>, <<8104, 8111, 1, -8>>, <<8120, 8121, 1, -8>>,
    <<8122, 8123, 1, -74>>, <<8124, 8124, 1, -9>>, <<8136, 8139, 1, -86>>,
    <<8140, 8140, 1, -9>>, <<8152, 8153, 1, -8>>, <<8154, 8155, 1, -100>>,
    <<8168, 8169, 1, -8>>, <<8170, 8171, 1, -112>>, <<8172, 8172, 1, -7>>,
    <<8184, 8185, 1, -128>>, <<8186, 8187, 1, -126>>, <<8188, 8188, 1, -9>>,
    <<8486, 8486, 1, -7517>>, <<8490, 8490, 1, -8383>>, <<8491, 8491, 1,
    -8262>>, <<8498, 8498, 1, 28>>, <<8544, 8559, 1, 16>>, <<8579, 8579, 1,
    1>>, <<9398, 9423, 1, 26>>, <<11264, 11311, 1, 48>>, <<11360, 11360, 1,
    1>>, <<11362, 11362, 1, -10743>>, <<11363, 11363, 1, -3814>>, <<11364,
    11364, 1, -10727>>, <<11367, 11371, 2, 1>>, <<11373, 11373, 1, -10780>>,
    <<11374, 11374, 1, -10749>>, <<11375, 11375, 1, -10783>>, <<11376, 11376,
    1, -10782>>, <<11378, 11378, 1, 1>>, <<11381, 11381, 1, 1>>, <<11390,
    11391, 1, -10815>>, <<11392, 11490, 2, 1>>, <<11499, 11501, 2, 1>>,
    <<11506, 11506, 1, 1>>, <<42560, 42604, 2, 1>>, <<42624, 42650, 2, 1>>,
    <<42786, 42798, 2, 1>>, <<42802, 42862, 2, 1>>, <<42873, 42875, 2, 1>>,
    <<42877, 42877, 1, -35332>>, <<42878, 42886, 2, 1>>, <<42891, 42891, 1,
    1>>, <<42893, 42893, 1, -42280>>, <<42896, 42898, 2, 1>>, <<42902, 42920,
    2, 1>>, <<42922, 42922, 1, -42308>>, <<42923, 42923, 1, -42319>>, <<42924,
    42924, 1, -42315>>, <<42925, 42925, 1, -42305>>, <<42926, 42926, 1,
    -42308>>, <<42928, 42928, 1, -42258>>, <<42929, 42929, 1, -42282>>,
    <<42930, 42930, 1, -42261>>, <<42931, 42931, 1, 928>>, <<42932, 42946, 2,
    1>>, <<42948, 42948, 1, -48>>, <<42949, 42949, 1, -42307>>, <<42950,
    42950, 1, -35384>>, <<42951, 42953, 2, 1>>, <<42955, 42955, 1, -42343>>,
    <<42956, 42970, 2, 1>>, <<42972, 42972, 1, -42561>>, <<42997, 42997, 1,
    1>>, <<65313, 65338, 1, 32>>, <<66560, 66599, 1, 40>>, <<66736, 66771, 1,
    40>>, <<66928, 66964, 2, 39>>, <<66929, 66937, 2, 39>>, <<66941, 66953, 2,
    39>>, <<66957, 66961, 2, 39>>, <<66965, 66965, 1, 39>>, <<68736, 68786, 1,
    64>>, <<68944, 68965, 1, 32>>, <<71840, 71871, 1, 32>>, <<93760, 93791, 1,
    32>>, <<93856, 93880, 1, 27>>, <<125184, 125217, 1, 34>>>>

\* <<first, last>>: the Case_Ignorable code points of Unicode 17, the version
\* of the runtimes in use (Node 20 and 22); U+1171E is not among them since
\* Unicode 16.
CaseIgnorable ==
  <<<<39, 39>>, <<46, 46>>, <<58, 58>>, <<94, 94>>, <<96, 96>>, <<168, 168>>,
    <<173, 173>>, <<175, 175>>, <<180, 180>>, <<183, 184>>, <<688, 879>>,
    <<884, 885>>, <<890, 890>>, <<900, 901>>, <<903, 903>>, <<1155, 1161>>,
    <<1369, 1369>>, <<1375, 1375>>, <<1425, 1469>>, <<1471, 1471>>, <<1473,
    1474>>, <<1476, 1477>>, <<1479, 1479>>, <<1524, 1524>>, <<1536, 1541>>,
    <<1552, 1562>>, <<1564, 1564>>, <<1600, 1600>>, <<1611, 1631>>, <<1648,
    1648>>, <<1750, 1757>>, <<1759, 1768>>, <<1770, 1773>>, <<1807, 1807>>,
    <<1809, 1809>>, <<1840, 1866>>, <<1958, 1968>>, <<2027, 2037>>, <<2042,
    2042>>, <<2045, 2045>>, <<2070, 2093>>, <<2137, 2139>>, <<2184, 2184>>,
    <<2192, 2193>>, <<2199, 2207>>, <<2249, 2306>>, <<2362, 2362>>, <<2364,
    2364>>, <<2369, 2376>>, <<2381, 2381>>, <<2385, 2391>>, <<2402, 2403>>,
    <<2417, 2417>>, <<2433, 2433>>, <<2492, 2492>>, <<2497, 2500>>, <<2509,
    2509>>, <<2530, 2531>>, <<2558, 2558>>, <<2561, 2562>>, <<2620, 2620>>,
    <<2625, 2626>>, <<2631, 2632>>, <<2635, 2637>>, <<2641, 2641>>, <<2672,
    2673>>, <<2677, 2677>>, <<2689, 2690>>, <<2748, 2748>>, <<2753, 2757>>,
    <<2759, 2760>>, <<2765, 2765>>, <<2786, 2787>>, <<2810, 2815>>, <<2817,
    2817>>, <<2876, 2876>>, <<2879, 2879>>, <<2881, 2884>>, <<2893, 2893>>,
    <<2901, 2902>>, <<2914, 2915>>, <<2946, 2946>>, <<3008, 3008>>, <<3021,
    3021>>, <<3072, 3072>>, <<3076, 3076>>, <<3132, 3132>>, <<3134, 3136>>,
    <<3142, 3144>>, <<3146, 3149>>, <<3157, 3158>>, <<3170, 3171>>, <<3201,
    3201>>, <<3260, 3260>>, <<3263, 3263>>, <<3270, 3270>>, <<3276, 3277>>,
    <<3298, 3299>>, <<3328, 3329>>, <<3387, 3388>>, <<3393, 3396>>, <<3405,
    3405>>, <<3426, 3427>>, <<3457, 3457>>, <<3530, 3530>>, <<3538, 3540>>,
    <<3542, 3542>>, <<3633, 3633>>, <<3636, 3642>>, <<3654, 3662>>, <<3761,
    3761>>, <<3764, 3772>>, <<3782, 3782>>, <<3784, 3790>>, <<3864, 3865>>,
    <<3893, 3893>>, <<3895, 3895>>, <<3897, 3897>>, <<3953, 3966>>, <<3968,
    3972>>, <<3974, 3975>>, <<3981, 3991>>, <<3993, 4028>>, <<4038, 4038>>,
    <<4141, 4144>>, <<4146, 4151>>, <<4153, 4154>>, <<4157, 4158>>, <<4184,
    4185>>, <<4190, 4192>>, <<4209, 4212>>, <<4226, 4226>>, <<4229, 4230>>,
    <<4237, 4237>>, <<4253, 4253>>, <<4348, 4348>>, <<4957, 4959>>, <<5906,
    5908>>, <<5938, 5939>>, <<5970, 5971>>, <<6002, 6003>>, <<6068, 6069>>,
    <<6071, 6077>>, <<6086, 6086>>, <<6089, 6099>>, <<6103, 6103>>, <<6109,
    6109>>, <<6155, 6159>>, <<6211, 6211>>, <<6277, 6278>>, <<6313, 6313>>,
    <<6432, 6434>>, <<6439, 6440>>, <<6450, 6450>>, <<6457, 6459>>, <<6679,
    6680>>, <<6683, 6683>>, <<6742, 6742>>, <<6744, 6750>>, <<6752, 6752>>,
    <<6754, 6754>>, <<6757, 6764>>, <<6771, 6780>>, <<6783, 6783>>, <<6823,
    6823>>, <<6832, 6877>>, <<6880, 6891>>, <<6912, 6915>>, <<6964, 6964>>,
    <<6966, 6970>>, <<6972, 6972>>, <<6978, 6978>>, <<7019, 7027>>, <<7040,
    7041>>, <<7074, 7077>>, <<7080, 7081>>, <<7083, 7085>>, <<7142, 7142>>,
    <<7144, 7145>>, <<7149, 7149>>, <<7151, 7153>>, <<7212, 7219>>, <<7222,
    7223>>, <<7288, 7293>>, <<7376, 7378>>, <<7380, 7392>>, <<7394, 7400>>,
    <<7405, 7405>>, <<7412, 7412>>, <<7416, 7417>>, <<7468, 7530>>, <<7544,
    7544>>, <<7579, 7679>>, <<8125, 8125>>, <<8127, 8129>>, <<8141, 8143>>,
    <<8157, 8159>>, <<8173, 8175>>, <<8189, 8190>>, <<8203, 8207>>, <<8216,
    8217>>, <<8228, 8228>>, <<8231, 8231>>, <<8234, 8238>>, <<8288, 8292>>,
    <<8294, 8303>>, <<8305, 8305>>, <<8319, 8319>>, <<8336, 8348>>, <<8400,
    8432>>, <<11388, 11389>>, <<11503, 11505>>, <<11631, 11631>>, <<11647,
    11647>>, <<11744, 11775>>, <<11823, 11823>>, <<12293, 12293>>, <<12330,
    12333>>, <<12337, 12341>>, <<12347, 12347>>, <<12441, 12446>>, <<12540,
    12542>>, <<40981, 40981>>, <<42232, 42237>>, <<42508, 42508>>, <<42607,
    42610>>, <<42612, 42621>>, <<42623, 42623>>, <<42652, 42655>>, <<42736,
    42737>>, <<42752, 42785>>, <<42864, 42864>>, <<42888, 42890>>, <<42993,
    42996>>, <<43000, 43001>>, <<43010, 43010>>, <<43014, 43014>>, <<43019,
    43019>>, <<43045, 43046>>, <<43052, 43052>>, <<43204, 43205>>, <<43232,
    43249>>, <<43263, 43263>>, <<43302, 43309>>, <<43335, 43345>>, <<43392,
    43394>>, <<43443, 43443>>, <<43446, 43449>>, <<43452, 43453>>, <<43471,
    43471>>, <<43493, 43494>>, <<43561, 43566>>, <<43569, 43570>>, <<43573,
    43574>>, <<43587, 43587>>, <<43596, 43596>>, <<43632, 43632>>, <<43644,
    43644>>, <<43696, 43696>>, <<43698, 43700>>, <<43703, 43704>>, <<43710,
    43711>>, <<43713, 43713>>, <<43741, 43741>>, <<43756, 43757>>, <<43763,
    43764>>, <<43766, 43766>>, <<43867, 43871>>, <<43881, 43883>>, <<44005,
    44005>>, <<44008, 44008>>, <<44013, 44013>>, <<64286, 64286>>, <<64434,
    64450>>, <<65024, 65039>>, <<65043, 65043>>, <<65056, 65071>>, <<65106,
    65106>>, <<65109, 65109>>, <<65279, 65279>>, <<65287, 65287>>, <<65294,
    65294>>, <<65306, 65306>>, <<65342, 65342>>, <<65344, 65344>>, <<65392,
    65392>>, <<65438, 65439>>, <<65507, 65507>>, <<65529, 65531>>, <<66045,
    66045>>, <<66272, 66272>>, <<66422, 66426>>, <<67456, 67461>>, <<67463,
    67504>>, <<67506, 67514>>, <<68097, 68099>>, <<68101, 68102>>, <<68108,
    68111>>, <<68152, 68154>>, <<68159, 68159>>, <<68325, 68326>>, <<68900,
    68903>>, <<68942, 68942>>, <<68969, 68973>>, <<68975, 68975>>, <<69291,
    69292>>, <<69317, 69317>>, <<69370, 69375>>, <<69446, 69456>>, <<69506,
    69509>>, <<69633, 69633>>, <<69688, 69702>>, <<69744, 69744>>, <<69747,
    69748>>, <<69759, 69761>>, <<69811, 69814>>, <<69817, 69818>>, <<69821,
    69821>>, <<69826, 69826>>, <<69837, 69837>>, <<69888, 69890>>, <<69927,
    69931>>, <<69933, 69940>>, <<70003, 70003>>, <<70016, 70017>>, <<70070,
    70078>>, <<70089, 70092>>, <<70095, 70095>>, <<70191, 70193>>, <<70196,
    70196>>, <<70198, 70199>>, <<70206, 70206>>, <<70209, 70209>>, <<70367,
    70367>>, <<70371, 70378>>, <<70400, 70401>>, <<70459, 70460>>, <<70464,
    70464>>, <<70502, 70508>>, <<70512, 70516>>, <<70587, 70592>>, <<70606,
    70606>>, <<70608, 70608>>, <<70610, 70610>>, <<70625, 70626>>, <<70712,
    70719>>, <<70722, 70724>>, <<70726, 70726>>, <<70750, 70750>>, <<70835,
    70840>>, <<70842, 70842>>, <<70847, 70848>>, <<70850, 70851>>, <<71090,
    71093>>, <<71100, 71101>>, <<71103, 71104>>, <<71132, 71133>>, <<71219,
    71226>>, <<71229, 71229>>, <<71231, 71232>>, <<71339, 71339>>, <<71341,
    71341>>, <<71344, 71349>>, <<71351, 71351>>, <<71453, 71453>>, <<71455, 71455>>, <<71458,
    71461>>, <<71463, 71467>>, <<71727, 71735>>, <<71737, 71738>>, <<71995,
    71996>>, <<71998, 71998>>, <<72003, 72003>>, <<72148, 72151>>, <<72154,
    72155>>, <<72160, 72160>>, <<72193, 72202>>, <<72243, 72248>>, <<72251,
    72254>>, <<72263, 72263>>, <<72273, 72278>>, <<72281, 72283>>, <<72330,
    72342>>, <<72344, 72345>>, <<72544, 72544>>, <<72546, 72548>>, <<72550,
    72550>>, <<72752, 72758>>, <<72760, 72765>>, <<72767, 72767>>, <<72850,
    72871>>, <<72874, 72880>>, <<72882, 72883>>, <<72885, 72886>>, <<73009,
    73014>>, <<73018, 73018>>, <<73020, 73021>>, <<73023, 73029>>, <<73031,
    73031>>, <<73104, 73105>>, <<73109, 73109>>, <<73111, 73111>>, <<73177,
    73177>>, <<73459, 73460>>, <<73472, 73473>>, <<73526, 73530>>, <<73536,
    73536>>, <<73538, 73538>>, <<73562, 73562>>, <<78896, 78912>>, <<78919,
    78933>>, <<90398, 90409>>, <<90413, 90415>>, <<92912, 92916>>, <<92976,
    92982>>, <<92992, 92995>>, <<93504, 93506>>, <<93547, 93548>>, <<94031,
    94031>>, <<94095, 94111>>, <<94176, 94177>>, <<94179, 94180>>, <<94194,
    94195>>, <<110576, 110579>>, <<110581, 110587>>, <<110589, 110590>>,
    <<113821, 113822>>, <<113824, 113827>>, <<118528, 118573>>, <<118576,
    118598>>, <<119143, 119145>>, <<119155, 119170>>, <<119173, 119179>>,
    <<119210, 119213>>, <<119362, 119364>>, <<121344, 121398>>, <<121403,
    121452>>, <<121461, 121461>>, <<121476, 121476>>, <<121499, 121503>>,
    <<121505, 121519>>, <<122880, 122886>>, <<122888, 122904>>, <<122907,
    122913>>, <<122915, 122916>>, <<122918, 122922>>, <<122928, 122989>>,
    <<123023, 123023>>, <<123184, 123197>>, <<123566, 123566>>, <<123628,
    123631>>, <<124139, 124143>>, <<124398, 124399>>, <<124643, 124643>>,
    <<124646, 124646>>, <<124654, 124655>>, <<124661, 124661>>, <<124671,
    124671>>, <<125136, 125142>>, <<125252, 125259>>, <<127995, 127999>>,
    <<917505, 917505>>, <<917536, 917631>>, <<917760, 917999>>>>

\* <<first, last>>: the Cased code points that are not Case_Ignorable.
Cased ==
  <<<<65, 90>>, <<97, 122>>, <<170, 170>>, <<181, 181>>, <<186, 186>>, <<192,
    214>>, <<216, 246>>, <<248, 442>>, <<444, 447>>, <<452, 659>>, <<662,
    687>>, <<880, 883>>, <<886, 887>>, <<891, 893>>, <<895, 895>>, <<902,
    902>>, <<904, 906>>, <<908, 908>>, <<910, 929>>, <<931, 1013>>, <<1015,
    1153>>, <<1162, 1327>>, <<1329, 1366>>, <<1376, 1416>>, <<4256, 4293>>,
    <<4295, 4295>>, <<4301, 4301>>, <<4304, 4346>>, <<4349, 4351>>, <<5024,
    5109>>, <<5112, 5117>>, <<7296, 7306>>, <<7312, 7354>>, <<7357, 7359>>,
    <<7424, 7467>>, <<7531, 7543>>, <<7545, 7578>>, <<7680, 7957>>, <<7960,
    7965>>, <<7968, 8005>>, <<8008, 8013>>, <<8016, 8023>>, <<8025, 8025>>,
    <<8027, 8027>>, <<8029, 8029>>, <<8031, 8061>>, <<8064, 8116>>, <<8118,
    8124>>, <<8126, 8126>>, <<8130, 8132>>, <<8134, 8140>>, <<8144, 8147>>,
    <<8150, 8155>>, <<8160, 8172>>, <<8178, 8180>>, <<8182, 8188>>, <<8450,
    8450>>, <<8455, 8455>>, <<8458, 8467>>, <<8469, 8469>>, <<8473, 8477>>,
    <<8484, 8484>>, <<8486, 8486>>, <<8488, 8488>>, <<8490, 8493>>, <<8495,
    8500>>, <<8505, 8505>>, <<8508, 8511>>, <<8517, 8521>>, <<8526, 8526>>,
    <<8544, 8575>>, <<8579, 8580>>, <<9398, 9449>>, <<11264, 11387>>, <<11390,
    11492>>, <<11499, 11502>>, <<11506, 11507>>, <<11520, 11557>>, <<11559,
    11559>>, <<11565, 11565>>, <<42560, 42605>>, <<42624, 42651>>, <<42786,
    42863>>, <<42865, 42887>>, <<42891, 42894>>, <<42896, 42972>>, <<42997,
    42998>>, <<43002, 43002>>, <<43824, 43866>>, <<43872, 43880>>, <<43888,
    43967>>, <<64256, 64262>>, <<64275, 64279>>, <<65313, 65338>>, <<65345,
    65370>>, <<66560, 66639>>, <<66736, 66771>>, <<66776, 66811>>, <<66928,
    66938>>, <<66940, 66954>>, <<66956, 66962>>, <<66964, 66965>>, <<66967,
    66977>>, <<66979, 66993>>, <<66995, 67001>>, <<67003, 67004>>, <<68736,
    68786>>, <<68800, 68850>>, <<68944, 68965>>, <<68976, 68997>>, <<71840,
    71903>>, <<93760, 93823>>, <<93856, 93880>>, <<93883, 93907>>, <<119808,
    119892>>, <<119894, 119964>>, <<119966, 119967>>, <<119970, 119970>>,
    <<119973, 119974>>, <<119977, 119980>>, <<119982, 119993>>, <<119995,
    119995>>, <<119997, 120003>>, <<120005, 120069>>, <<120071, 120074>>,
    <<120077, 120084>>, <<120086, 120092>>, <<120094, 120121>>, <<120123,
    120126>>, <<120128, 120132>>, <<120134, 120134>>, <<120138, 120144>>,
    <<120146, 120485>>, <<120488, 120512>>, <<120514, 120538>>, <<120540,
    120570>>, <<120572, 120596>>, <<120598, 120628>>, <<120630, 120654>>,
    <<120656, 120686>>, <<120688, 120712>>, <<120714, 120744>>, <<120746,
    120770>>, <<120772, 120779>>, <<122624, 122633>>, <<122635, 122654>>,
    <<122661, 122666>>, <<125184, 125251>>, <<127280, 127305>>, <<127312,
    127337>>, <<127344, 127369>>>>

InRanges(c, ranges) == \E k \in 1..Len(ranges) : c >= ranges[k][1] /\ c <= ranges[k][2]

\* The simple lower-case mapping of a code point.
LowerCodePoint(c) ==
  IF c < 128 THEN (IF c >= 65 /\ c <= 90 THEN c + 32 ELSE c)
  ELSE LET hits == {k \in 1..Len(LowerCaseMappings) :
                      /\ c >= LowerCaseMappings[k][1] /\ c <= LowerCaseMappings[k][2]
                      /\ (c - LowerCaseMappings[k][1]) % LowerCaseMappings[k][3] = 0}
       IN IF hits = {} THEN c ELSE c + LowerCaseMappings[CHOOSE k \in hits : TRUE][4]

\* The code unit at i is the second half of a surrogate pair.
IsTrail(s, i) == i > 1 /\ IsLowSurrogate(s[i]) /\ IsHighSurrogate(s[i - 1])
\* The code point that starts at i.
CodePointAt(s, i) ==
  IF IsHighSurrogate(s[i]) /\ i < Len(s) /\ IsLowSurrogate(s[i + 1])
  THEN 65536 + ((s[i] - 55296) * 1024) + (s[i + 1] - 56320)
  ELSE s[i]

\* Final_Sigma: going back from i over Case_Ignorable code points there is a
\* Cased one, and going forward there is none.
IsFinalSigma(s, i) ==
  LET Ignored(k) == IsTrail(s, k) \/ InRanges(CodePointAt(s, k), CaseIgnorable)
      IsCased(k) == ~Ignored(k) /\ InRanges(CodePointAt(s, k), Cased)
      before == \E p \in 1..(i - 1) : IsCased(p) /\ \A k \in (p + 1)..(i - 1) : Ignored(k)
      after == \E q \in (i + 1)..Len(s) : IsCased(q) /\ \A k \in (i + 1)..(q - 1) : Ignored(k)
  IN before /\ ~after

\* The code unit that toLowerCase puts in the place of the one at i (U+0130
\* apart, which becomes two).
LowerUnit(s, i) ==
  LET lead == IF IsTrail(s, i) THEN i - 1 ELSE i
      lower == LowerCodePoint(CodePointAt(s, lead))
  IN IF s[i] = 931 THEN (IF IsFinalSigma(s, i) THEN 962 ELSE 963)
     ELSE IF lower < 65536 THEN lower
     ELSE IF lead = i THEN 55296 + ((lower - 65536) \div 1024)
     ELSE 56320 + ((lower - 65536) % 1024)

toLowerCase(s) ==
  LET Dotted(i) == Cardinality({h \in 1..(i - 1) : s[h] = 304})
      Source(k) == CHOOSE i \in 1..Len(s) :
                     i + Dotted(i) = k \/ (s[i] = 304 /\ i + Dotted(i) + 1 = k)
  IN IF \A i \in 1..Len(s) : s[i] < 128
     THEN [i \in 1..Len(s) |-> IF s[i] >= 65 /\ s[i] <= 90 THEN s[i] + 32 ELSE s[i]]
     ELSE [k \in 1..(Len(s) + Dotted(Len(s) + 1)) |->
             IF s[Source(k)] # 304 THEN LowerUnit(s, Source(k))
             ELSE IF Source(k) + Dotted(Source(k)) = k THEN 105 ELSE 775]

\* String.prototype.split with a one-character separator.
split(s, separator) ==
  LET cuts == SelectSeq([i \in 1..Len(s) |-> i], LAMBDA i : s[i] = separator)
      First(k) == IF k = 1 THEN 1 ELSE cuts[k - 1] + 1
      Last(k) == IF k > Len(cuts) THEN Len(s) ELSE cuts[k] - 1
  IN [k \in 1..(Len(cuts) + 1) |-> SubSeq(s, First(k), Last(k))]

(***************************************************************************)
(* JSON.parse(text) (ECMA-404).  The parse of a value that starts at i is  *)
(* [ok, next, value]: next is the index after the value.                   *)
(***************************************************************************)
IsJsonWhitespace(c) == c \in {9, 10, 13, 32}

NoParse == [ok |-> FALSE, next |-> 0, value |-> Absent]
Parsed(next, value) == [ok |-> TRUE, next |-> next, value |-> value]

\* The number of backslashes that end just before j, none of them at or
\* before `from`.
BackslashesBefore(t, from, j) ==
  LET stop == CHOOSE k \in from..(j - 1) :
                (k = from \/ t[k] # 92) /\ \A h \in (k + 1)..(j - 1) : t[h] = 92
  IN j - 1 - stop

\* A string: '"' at i, then code units from U+0020 on and the escapes
\* \" \\ \/ \b \f \n \r \t \uXXXX, up to the first '"' that is not escaped.
JsonString(t, i) ==
  LET closes == {j \in (i + 1)..Len(t) : t[j] = 34 /\ BackslashesBefore(t, i, j) % 2 = 0}
      close == CHOOSE j \in closes : \A k \in closes : j <= k
      c == SubSeq(t, i + 1, close - 1)
      m == Len(c)
      Intro(k) == c[k] = 92 /\ BackslashesBefore(c, 0, k) % 2 = 0
      Escaped(k) == k > 1 /\ Intro(k - 1)
      Unicode(k) == Escaped(k) /\ c[k] = 117
      Payload(k) == \E u \in Max(1, k - 4)..(k - 1) : Unicode(u)
      valid == \A k \in 1..m :
                 /\ c[k] >= 32
                 /\ Escaped(k) => c[k] \in {34, 92, 47, 98, 102, 110, 114, 116, 117}
                 /\ Unicode(k) => (k + 4 <= m /\ \A h \in 1..4 : IsHexDigit(c[k + h]))
      Unescape(k) ==
        IF c[k] = 98 THEN 8 ELSE IF c[k] = 102 THEN 12 ELSE IF c[k] = 110 THEN 10
        ELSE IF c[k] = 114 THEN 13 ELSE IF c[k] = 116 THEN 9
        ELSE IF c[k] = 117
          THEN (4096 * HexDigitValue(c[k + 1])) + (256 * HexDigitValue(c[k + 2]))
                 + (16 * HexDigitValue(c[k + 3])) + HexDigitValue(c[k + 4])
        ELSE c[k]
      units == [k \in 1..m |->
                  IF Intro(k) \/ Payload(k) THEN -1
                  ELSE IF Escaped(k) THEN Unescape(k) ELSE c[k]]
      plain == \A k \in 1..m : c[k] # 92
  IN IF closes = {} THEN NoParse
     ELSE IF plain
       THEN (IF \A k \in 1..m : c[k] >= 32 THEN Parsed(close + 1, JsString(c)) ELSE NoParse)
     ELSE IF ~valid THEN NoParse
     ELSE Parsed(close + 1, JsString(SelectSeq(units, LAMBDA u : u >= 0)))

\* A number: -? (0 | [1-9][0-9]*) (. [0-9]+)? ([eE] [+-]? [0-9]+)?  Its value
\* is the Number nearest to what is written.
JsonNumber(t, i) ==
  LET int == IF t[i] = 45 THEN i + 1 ELSE i
      intEnd == SkipWhile(t, int, IsDigit)
      fraction == At(t, intEnd) = 46
      fractionEnd == IF fraction THEN SkipWhile(t, intEnd + 1, IsDigit) ELSE intEnd
      exponent == At(t, fractionEnd) \in {69, 101}
      exponentDigits == IF At(t, fractionEnd + 1) \in {43, 45}
                        THEN fractionEnd + 2 ELSE fractionEnd + 1
      end == IF exponent THEN SkipWhile(t, Min(exponentDigits, Len(t) + 1), IsDigit)
             ELSE fractionEnd
  IN IF /\ intEnd > int /\ (t[int] = 48 => intEnd = int + 1)
        /\ fraction => fractionEnd > intEnd + 1
        /\ exponent => end > exponentDigits
     THEN Parsed(end, [typeof |-> "number",
                       str |-> NumberToString(DecimalLiteral(t[i] = 45, SubSeq(t, int, end - 1)))])
     ELSE NoParse

\* true, false or null
JsonLiteral(t, i) ==
  LET Is(word) == i + Len(word) - 1 <= Len(t) /\ SubSeq(t, i, i + Len(word) - 1) = word
  IN IF Is(<<116, 114, 117, 101>>)
     THEN Parsed(i + 4, [typeof |-> "boolean", str |-> <<116, 114, 117, 101>>])
     ELSE IF Is(<<102, 97, 108, 115, 101>>)
       THEN Parsed(i + 5, [typeof |-> "boolean", str |-> <<102, 97, 108, 115, 101>>])
     ELSE IF Is(<<110, 117, 108, 108>>)
       THEN Parsed(i + 4, [typeof |-> "null", str |-> <<>>])
     ELSE NoParse

RECURSIVE JsonValue(_, _)
RECURSIVE JsonMembers(_, _, _, _)
RECURSIVE JsonElements(_, _, _, _)

\* value.name for the names read here (email, nonce, kid, toString): the
\* last member of that name of an object, undefined for every other value
\* but null.
GetMember(v, name) ==
  LET first == SkipWhile(v.str, 2, IsJsonWhitespace)
  IN IF v.typeof # "object" \/ v.str[first] = 125 THEN Absent
     ELSE JsonMembers(v.str, first, name, Absent).value

\* "toString"
ToStringName == <<116, 111, 83, 116, 114, 105, 110, 103>>

\* ToPrimitive(value) throws a TypeError.  A parsed object with a member
\* of its own called toString has no callable toString (no JSON value is
\* callable) and the valueOf it inherits returns the object; an array is
\* converted by join, which converts its elements.
ToPrimitiveThrows(v) ==
  \/ v.typeof = "object" /\ GetMember(v, ToStringName).typeof # "undefined"
  \/ v.typeof = "array" /\ v.unjoinable

\* ToString(value), for a value whose ToPrimitive does not throw.
JsToString(v) ==
  IF v.typeof = "null" THEN <<110, 117, 108, 108>>
  ELSE IF v.typeof = "undefined" THEN <<117, 110, 100, 101, 102, 105, 110, 101, 100>>
  ELSE IF v.typeof = "object"
    THEN <<91, 111, 98, 106, 101, 99, 116, 32, 79, 98, 106, 101, 99, 116, 93>>
  ELSE v.str

\* An object's members from the one whose value `member` has been parsed:
\* `now` is the value of the last member called `name` so far.
JsonMembersAfter(t, name, now, member, after) ==
  IF ~member.ok THEN NoParse
  ELSE IF At(t, after) = 125 THEN Parsed(after + 1, now)
  ELSE IF At(t, after) = 44 /\ now.typeof # "none"
    THEN JsonMembers(t, SkipWhile(t, after + 1, IsJsonWhitespace), name, now)
  ELSE NoParse

JsonMemberValue(t, name, found, key, member) ==
  JsonMembersAfter(t, name, IF key.value.str = name THEN member.value ELSE found,
                   member, SkipWhile(t, member.next, IsJsonWhitespace))

JsonMember(t, name, found, key, colon) ==
  IF ~key.ok \/ At(t, colon) # 58 THEN NoParse
  ELSE JsonMemberValue(t, name, found, key,
                       JsonValue(t, SkipWhile(t, colon + 1, IsJsonWhitespace)))

\* The members of an object from the key at i on, up to its '}'.  The value
\* is that of the last member called `name` (`found` if there is none).
JsonMembers(t, i, name, found) ==
  IF At(t, i) # 34 THEN NoParse
  ELSE JsonMember(t, name, found, JsonString(t, i),
                  SkipWhile(t, JsonString(t, i).next, IsJsonWhitespace))

\* An array's elements from the one that has been parsed: `now` is the
\* elements' strings so far, joined by ",", and `unjoinable` says that an
\* element so far has no string.
JsonElementsAfter(t, now, unjoinable, after) ==
  IF At(t, after) = 93
    THEN Parsed(after + 1, [typeof |-> "array", str |-> now, unjoinable |-> unjoinable])
  ELSE IF At(t, after) = 44 /\ Len(now) >= 0
    THEN JsonElements(t, SkipWhile(t, after + 1, IsJsonWhitespace), now \o <<44>>,
                      unjoinable)
  ELSE NoParse

JsonElement(t, joined, unjoinable, element) ==
  IF ~element.ok THEN NoParse
  ELSE JsonElementsAfter(t,
                         joined \o (IF element.value.typeof = "null" THEN <<>>
                                    ELSE JsToString(element.value)),
                         unjoinable \/ ToPrimitiveThrows(element.value),
                         SkipWhile(t, element.next, IsJsonWhitespace))

\* The elements of an array from the value at i on, up to its ']'.  The
\* value is the array: its elements' strings joined by "," (null gives "").
JsonElements(t, i, joined, unjoinable) ==
  JsonElement(t, joined, unjoinable, JsonValue(t, i))

JsonObject(t, i, members) ==
  IF members.ok
  THEN Parsed(members.next, [typeof |-> "object", str |-> SubSeq(t, i, members.next - 1)])
  ELSE NoParse

JsonValueAt(t, i, c, inside) ==
  IF c = 34 THEN JsonString(t, i)
  ELSE IF c = 45 \/ IsDigit(c) THEN JsonNumber(t, i)
  ELSE IF c = 123
    THEN (IF At(t, inside) = 125
          THEN Parsed(inside + 1, [typeof |-> "object", str |-> SubSeq(t, i, inside)])
          ELSE JsonObject(t, i, JsonMembers(t, inside, <<>>, Absent)))
  ELSE IF c = 91
    THEN (IF At(t, inside) = 93
          THEN Parsed(inside + 1, [typeof |-> "array", str |-> <<>>, unjoinable |-> FALSE])
          ELSE JsonElements(t, inside, <<>>, FALSE))
  ELSE IF c \in {116, 102, 110} THEN JsonLiteral(t, i)
  ELSE NoParse

\* The value that starts at i.
JsonValue(t, i) == JsonValueAt(t, i, At(t, i), SkipWhile(t, i + 1, IsJsonWhitespace))

JsonWhole(text, parsed) ==
  IF parsed.ok /\ SkipWhile(text, parsed.next, IsJsonWhitespace) = Len(text) + 1
  THEN Return(parsed.value)
  ELSE Throw("SyntaxError")

\* JSON.parse(text): one value with white space around it, or a SyntaxError.
JsonParse(text) == JsonWhole(text, JsonValue(text, SkipWhile(text, 1, IsJsonWhitespace)))

\* The longest prefix of decimal digits of s from position i has this length.
DigitRun(s, i) == SkipWhile(s, Min(i, Len(s) + 1), IsDigit) - Min(i, Len(s) + 1)

SkipWhitespace(s, i) == SkipWhile(s, i, IsWhiteSpace)

\* parseInt(string, 10): leading white space and one sign are skipped, the
\* longest run of decimal digits is read as an integer and the result is
\* its Number value; NaN when there is no digit.
parseInt10(string) ==
  LET start == SkipWhitespace(string, 1)
      neg == start <= Len(string) /\ string[start] = 45
      signed == start <= Len(string) /\ string[start] \in {43, 45}
      first == IF signed THEN start + 1 ELSE start
      run == DigitRun(string, first)
  IN IF run = 0 THEN NaN
     ELSE RoundToDouble(neg, StripLeadingZeros([i \in 1..run |-> string[first + i - 1] - 48]))

\* "undefined": what atob makes of a segment that is not there.
UndefinedText == <<117, 110, 100, 101, 102, 105, 110, 101, 100>>
Email == <<101, 109, 97, 105, 108>>
Nonce == <<110, 111, 110, 99, 101>>
Kid == <<107, 105, 100>>

\* The claims read from the decoded header and payload: reading a member
\* of null and calling toLowerCase of anything but a string is a TypeError.
ReadClaims(headers, json, email, nonce) ==
  IF json.typeof = "null" \/ email.typeof # "string" THEN Throw("TypeError")
  ELSE IF nonce.typeof # "string" THEN Throw("TypeError")
  ELSE IF headers.typeof = "null" THEN Throw("TypeError")
  ELSE Return([email |-> toLowerCase(email.str),
               nonce |-> toLowerCase(nonce.str),
               kid |-> GetMember(headers, Kid)])

ParsedClaims(headers, json) ==
  IF ~json.ok THEN json
  ELSE ReadClaims(headers.value, json.value, GetMember(json.value, Email),
                  GetMember(json.value, Nonce))

DecodedClaims(headers, payloadText) ==
  IF ~headers.ok THEN headers
  ELSE IF ~payloadText.ok THEN payloadText
  ELSE ParsedClaims(headers, JsonParse(payloadText.value))

SegmentClaims(headerText, payload) ==
  IF ~headerText.ok THEN headerText
  ELSE DecodedClaims(JsonParse(headerText.value), atob(payload))

\* extract_jwt_claims(jwt): the token is split at ".", the first two
\* segments are decoded by atob (which throws InvalidCharacterError) and
\* parsed by JSON.parse (SyntaxError), the header first; then the claims
\* are read.
extract_jwt_claims(jwt) ==
  SegmentClaims(atob(split(jwt, 46)[1]),
                IF Len(split(jwt, 46)) >= 2 THEN split(jwt, 46)[2] ELSE UndefinedText)

\* !value: undefined, null, false, "", 0, -0 and NaN are falsy.
IsFalsy(v) ==
  \/ v.typeof \in {"undefined", "null"}
  \/ v.typeof = "boolean" /\ v.str[1] = 102
  \/ v.typeof = "string" /\ v.str = <<>>
  \/ v.typeof = "number" /\ v.str \in {<<48>>, <<78, 97, 78>>}

\* string == value, for a value whose ToPrimitive does not throw: a string,
\* array or object is compared by its string; a number or boolean with
\* Number(string), which NaN never equals and where -0 equals 0 (two
\* Numbers are then equal when their ToString is).
IsLooselyEqual(string, v) ==
  LET Same(text) ==
        /\ text # <<78, 97, 78>>
        /\ text = (IF v.typeof = "number" THEN v.str
                   ELSE IF v.str[1] = 116 THEN <<49>> ELSE <<48>>)
  IN IF v.typeof \in {"number", "boolean"}
     THEN Same(NumberToString(StringToNumber(string)))
     ELSE string = JsToString(v)

\* keys.find((key) => key.kid == kid): the index of the first match, 0 if
\* none.  The comparison with the first key converts kid to a primitive and
\* throws a TypeError if that does; without a key nothing is compared.
FindKey(keys, kid) ==
  LET First(found) == IF found = {} THEN 0 ELSE CHOOSE i \in found : \A h \in found : i <= h
  IN IF keys # <<>> /\ ToPrimitiveThrows(kid) THEN Throw("TypeError")
     ELSE IF keys = <<>> THEN Return(0)
     ELSE Return(First({i \in 1..Len(keys) : IsLooselyEqual(keys[i].kid, kid)}))

\* The arguments of build_stored_hash once the key has been looked up.  The
\* message of the Error for a kid no key has is built with `${kid}`, which
\* throws a TypeError when the conversion of kid does.
KeyArguments(keys, email, nonce, kid, found) ==
  IF ~found.ok THEN found
  ELSE IF found.value = 0
    THEN (IF ToPrimitiveThrows(kid) THEN Throw("TypeError")
          ELSE Throw("Error: Google public key with id ${kid} not found"))
  ELSE Return([email |-> email, nonce |-> parseInt10(nonce), pubkey |-> keys[found.value]])

CheckedArguments(keys, claims) ==
  IF ~claims.ok THEN claims
  ELSE IF claims.value.email = <<>> \/ claims.value.nonce = <<>> \/ IsFalsy(claims.value.kid)
    THEN Throw("Error: Invalid Google token: missing email, nonce, or kid")
  ELSE KeyArguments(keys, claims.value.email, claims.value.nonce, claims.value.kid,
                    FindKey(keys, claims.value.kid))

\* build_blob_from_jwt(jwt, keys) up to its await of build_stored_hash: what
\* it throws, or the arguments of that call.
build_blob_from_jwtArguments(jwt, keys) == CheckedArguments(keys, extract_jwt_claims(jwt))

\* build_blob_from_jwt(jwt, keys) once build_stored_hash has settled as `hash`.
build_blob_from_jwtResult(arguments, hash) ==
  IF ~hash.ok THEN hash
  ELSE Return([nonce |-> arguments.nonce, mail_hash |-> hash.value.mail_hash,
               pubkey |-> arguments.pubkey,
               blob |-> [contract_name |-> contract_name,
                         data |-> hash.value.stored_hash]])

AwaitedBlob(arguments, poseidon) ==
  IF ~arguments.ok THEN arguments
  ELSE build_blob_from_jwtResult(
         arguments.value,
         build_stored_hash(arguments.value.email, arguments.value.nonce,
                           arguments.value.pubkey.n, poseidon))

\* build_blob_from_jwt(jwt, keys), run to its end.
build_blob_from_jwt(jwt, keys, poseidon) ==
  AwaitedBlob(build_blob_from_jwtArguments(jwt, keys), poseidon)

(***************************************************************************)
(* The invocations of the two async builders.  build_stored_hash calls     *)
(* poseidon_hash at once, which is suspended first at its await of         *)
(* Barretenberg.new() and then at its await of bb.poseidon2Hash;           *)
(* build_blob_from_jwt runs its checks and calls build_stored_hash, so it  *)
(* is suspended at the same two awaits, unless it has thrown before.       *)
(***************************************************************************)
build_stored_hashCalled(email, nonce, pubkey) ==
  Suspended("build_stored_hash", <<email, nonce, pubkey>>, "Barretenberg.new", <<>>,
            [email |-> email, nonce |-> nonce, pubkey |-> [n |-> pubkey]])

CalledWith(jwt, keys, arguments) ==
  IF ~arguments.ok THEN Settled("build_blob_from_jwt", <<jwt, keys>>, arguments)
  ELSE Suspended("build_blob_from_jwt", <<jwt, keys>>, "Barretenberg.new", <<>>,
                 arguments.value)

build_blob_from_jwtCalled(jwt, keys) ==
  CalledWith(jwt, keys, build_blob_from_jwtArguments(jwt, keys))

\* The backend has been created: the hash of the email's field element is
\* requested.
BackendCreated(frame) ==
  Suspended(frame.fn, frame.args, "bb.poseidon2Hash",
            bytesToBigInt(stringToBytes(frame.locals.email)), frame.locals)

StoredHashSettled(frame, hash) ==
  Settled(frame.fn, frame.args,
          IF frame.fn = "build_stored_hash" THEN hash
          ELSE build_blob_from_jwtResult(frame.locals, hash))

\* poseidon_hash has rejected, Barretenberg.new() or bb.poseidon2Hash having
\* rejected: the awaits of build_stored_hash and of build_blob_from_jwt
\* throw what it rejected with.
PoseidonHashRejected(frame) == StoredHashSettled(frame, Throw("BackendError"))

\* poseidon_hash has returned mail_hash: build_stored_hash runs to its end,
\* and build_blob_from_jwt, when it is the caller, makes its result of it.
MailHashed(frame, mail_hash) ==
  StoredHashSettled(frame, build_stored_hashResumed(mail_hash, frame.locals.nonce,
                                                    frame.locals.pubkey.n))


(***************************************************************************)
(* Calls of the JwtBlobBuilder functions.                                  *)
(***************************************************************************)
\* The base64url text (no padding) of a byte sequence: how a JWK carries n.
Base64UrlChar(v) ==
  IF v < 26 THEN 65 + v ELSE IF v < 52 THEN 71 + v ELSE IF v < 62 THEN v - 4
  ELSE IF v = 62 THEN 45 ELSE 95

Base64UrlEncode(bytes) ==
  LET n == Len(bytes)
      B(i) == IF i <= n THEN bytes[i] ELSE 0
      Sextet(k) ==
        LET q == 3 * ((k - 1) \div 4)
            r == (k - 1) % 4
        IN IF r = 0 THEN B(q + 1) \div 4
           ELSE IF r = 1 THEN ((B(q + 1) % 4) * 16) + (B(q + 2) \div 16)
           ELSE IF r = 2 THEN ((B(q + 2) % 16) * 4) + (B(q + 3) \div 64)
           ELSE B(q + 3) % 64
  IN [k \in 1..(((8 * n) + 5) \div 6) |-> Base64UrlChar(Sextet(k))]

Emails == {<<97>>, <<98, 111, 98, 64, 120, 46, 105, 111>>}
FieldElements == {bytesToBigInt(stringToBytes(e)) : e \in Emails}
MailHashes == {Bytes(5, MailHashLen), Bytes(11, MailHashLen)}
\* What the Poseidon2 backend can compute on the field elements in use.
PoseidonFunctions == [FieldElements -> MailHashes]

PowerOfTen(k) == [i \in 1..(k + 1) |-> IF i = 1 THEN 1 ELSE 0]
\* 2^60 (printed as "1152921504606847000") and the double nearest to 10^23
\* (printed as "1e+23").
TwoTo60 == <<1, 1, 5, 2, 9, 2, 1, 5, 0, 4, 6, 0, 6, 8, 4, 6, 9, 7, 6>>
NearestTo1e23 == <<9, 9, 9, 9, 9, 9, 9, 9, 9, 9, 9, 9, 9, 9, 9, 9, 1, 6, 1, 1, 3, 9, 2>>
\* 0, 7, 123456, 10^15 (16 digits), 10^16 (17 digits), -5, -0, -10^15,
\* 10^21 ("1e+21"), 2^53, 2^60, 1e23, NaN and Infinity.
NonceNumbers ==
  {JsInt(FALSE, <<0>>), JsInt(FALSE, <<7>>), JsInt(FALSE, <<1, 2, 3, 4, 5, 6>>),
   JsInt(FALSE, PowerOfTen(15)), JsInt(FALSE, PowerOfTen(16)),
   JsInt(TRUE, <<5>>), JsInt(TRUE, <<0>>), JsInt(TRUE, PowerOfTen(15)),
   JsInt(FALSE, PowerOfTen(21)), JsInt(FALSE, TwoTo53), JsInt(FALSE, TwoTo60),
   JsInt(FALSE, NearestTo1e23), NaN, Infinity(FALSE)}

\* Moduli of 1, 2, 3 bytes, of an RSA-2048 key (256 bytes), of the longest
\* that fits the capacity (462) and of an RSA-4096 key (512 bytes).
ModulusLens == {1, 2, 3, JwtBlobLen - 50, JwtBlobCapacity - 50, JwtBlobCapacity}
Moduli == {Bytes(7, n) : n \in ModulusLens} \cup {<<251, 255>>}
\* Their base64url text, and text atob rejects: "A" and "ab!c".
ModulusTexts == {Base64UrlEncode(m) : m \in Moduli} \cup {<<65>>, <<97, 98, 33, 99>>}

\* The claims a token is issued with: email, nonce and kid, each a string
\* or absent.
\* "", "a", "Bob@X.io", "Ā@x.io" (capital A with macron), "a~b@x.io"
EmailClaims == {Absent, JsString(<<>>), JsString(<<97>>),
                JsString(<<66, 111, 98, 64, 88, 46, 105, 111>>),
                JsString(<<256, 64, 120, 46, 105, 111>>),
                JsString(<<97, 126, 98, 64, 120, 46, 105, 111>>)}
\* "", "7", "007", "12abc", "abc", " 42", "-5", "10000000000000000", "0x1F",
\* "00000000000000007", "9007199254740993", "123456789012345678",
\* "1000000000000000000001", "﻿42"
NonceClaims ==
  {Absent, JsString(<<>>), JsString(<<55>>), JsString(<<48, 48, 55>>),
   JsString(<<49, 50, 97, 98, 99>>), JsString(<<97, 98, 99>>),
   JsString(<<32, 52, 50>>), JsString(<<45, 53>>),
   JsString(DigitChars(PowerOfTen(16))), JsString(<<48, 120, 49, 70>>),
   JsString([i \in 1..17 |-> IF i = 17 THEN 55 ELSE 48]),
   JsString(DigitChars(Succ(TwoTo53))),
   JsString(DigitChars(<<1, 2, 3, 4, 5, 6, 7, 8, 9, 0, 1, 2, 3, 4, 5, 6, 7, 8>>)),
   JsString(DigitChars(Succ(PowerOfTen(21)))),
   JsString(<<65279, 52, 50>>)}
\* "", "k1", "k3"
KidClaims == {Absent, JsString(<<>>), JsString(<<107, 49>>), JsString(<<107, 51>>)}
\* A kid that is no string, with the JSON text the token carries: {},
\* {"toString":1}, ["k1"] and [{"toString":null}].
JsonClaim(typeof, json) == [typeof |-> typeof, str |-> json, json |-> json]
OtherKidClaims ==
  {JsonClaim("object", <<123, 125>>),
   JsonClaim("object", <<123, 34>> \o ToStringName \o <<34, 58, 49, 125>>),
   JsonClaim("array", <<91, 34, 107, 49, 34, 93>>),
   JsonClaim("array", <<91, 123, 34>> \o ToStringName
                        \o <<34, 58, 110, 117, 108, 108, 125, 93>>)}

\* The JSON text an issuer writes: a string in quotes, with a \u escape for
\* a quote, a backslash and every code unit outside printable ASCII.
Hex4(c) ==
  <<HexChar(c \div 4096), HexChar((c \div 256) % 16), HexChar((c \div 16) % 16),
    HexChar(c % 16)>>
RECURSIVE JsonEscaped(_)
JsonEscaped(s) ==
  IF s = <<>> THEN <<>>
  ELSE (IF Head(s) >= 32 /\ Head(s) < 127 /\ Head(s) \notin {34, 92}
        THEN <<Head(s)>> ELSE <<92, 117>> \o Hex4(Head(s)))
       \o JsonEscaped(Tail(s))
JsonMemberText(name, v) ==
  <<34>> \o name \o <<34, 58>>
    \o (IF v.typeof = "string" THEN <<34>> \o JsonEscaped(v.str) \o <<34>> ELSE v.json)
\* An object of the members that are not absent, in the order given.
RECURSIVE JsonMembersText(_)
JsonMembersText(members) ==
  IF members = <<>> THEN <<>>
  ELSE LET rest == JsonMembersText(Tail(members))
           m == Head(members)
       IN IF m[2].typeof = "undefined" THEN rest
          ELSE JsonMemberText(m[1], m[2]) \o (IF rest = <<>> THEN <<>> ELSE <<44>> \o rest)
JsonObjectText(members) == <<123>> \o JsonMembersText(members) \o <<125>>
\* header.payload.signature, each segment base64url without padding.
IssueToken(claims) ==
  Base64UrlEncode(JsonObjectText(<< <<Kid, claims.kid>> >>)) \o <<46>>
    \o Base64UrlEncode(JsonObjectText(<< <<Email, claims.email>>, <<Nonce, claims.nonce>> >>))
    \o <<46, 115, 105, 103>>
NoClaims == [kid |-> Absent, email |-> Absent, nonce |-> Absent]
\* Text that is no issued token: "a.b.c", "a.b", "e30" ({} alone), "!!.e30",
\* "e30.!!", "e30.bnVsbA" (the payload null), "e30.e30", "bnVsbA.e30", and
\* "e30.eyJ9" (the payload "{}" cut short).
OtherTexts ==
  {<<97, 46, 98, 46, 99>>, <<97, 46, 98>>, <<101, 51, 48>>,
   <<33, 33, 46, 101, 51, 48>>, <<101, 51, 48, 46, 33, 33>>,
   <<101, 51, 48, 46, 98, 110, 86, 115, 98, 65>>,
   <<101, 51, 48, 46, 101, 51, 48>>,
   <<98, 110, 86, 115, 98, 65, 46, 101, 51, 48>>,
   <<101, 51, 48, 46, 101, 121, 74, 57>>}
\* A token with the claims it was issued with (none for other text).
Tokens ==
  {[jwt |-> IssueToken(c), issued |-> TRUE, claims |-> c] :
     c \in [kid : KidClaims, email : EmailClaims, nonce : NonceClaims]
            \cup [kid : OtherKidClaims, email : {JsString(<<97>>)},
                  nonce : {JsString(<<55>>)}]}
  \cup {[jwt |-> t, issued |-> FALSE, claims |-> NoClaims] : t \in OtherTexts}
\* The field elements of the emails the tokens lead to.
JwtEmails == Emails \cup {<<257, 64, 120, 46, 105, 111>>}
JwtFieldElements == {bytesToBigInt(stringToBytes(e)) : e \in JwtEmails}
JwtPoseidonFunctions == [JwtFieldElements -> MailHashes]

\* Key sets: none, the key k1 (RSA-2048), and k2 followed by k1.
Key1 == [kid |-> <<107, 49>>, n |-> Base64UrlEncode(Bytes(7, JwtBlobLen - 50))]
Key2 == [kid |-> <<107, 50>>, n |-> Base64UrlEncode(<<251, 255>>)]
KeySets == {<<>>, <<Key1>>, <<Key2, Key1>>}

JwtCalls ==
  {[op |-> "build_stored_hash", email |-> e, nonce |-> n, pubkey |-> p, poseidon |-> f,
    frame |-> IdleFrame, done |-> FALSE, result |-> NoResult] :
     e \in Emails, n \in NonceNumbers, p \in ModulusTexts, f \in PoseidonFunctions}
  \cup
  {[op |-> "build_blob_from_jwt", jwt |-> t.jwt, issued |-> t.issued, claims |-> t.claims,
    keys |-> k, poseidon |-> f, frame |-> IdleFrame, done |-> FALSE, result |-> NoResult] :
     t \in Tokens, k \in KeySets, f \in JwtPoseidonFunctions}

\* A caller is about to make one call of a JwtBlobBuilder function.
InitJwt ==
  /\ call \in JwtCalls
  /\ node = [registered |-> {}]
  /\ reg = [i \in RegisterCalls |-> IdleRegister]
  /\ bpt = [j \in ProofCalls |-> IdleProof]

\* build_stored_hash is called: it runs up to the first await of poseidon_hash.
CallBuildStoredHash ==
  /\ call.op = "build_stored_hash" /\ call.frame.pc = "idle"
  /\ Enter(build_stored_hashCalled(call.email, call.nonce, call.pubkey))

\* build_blob_from_jwt is called: it throws, or runs up to the same await.
CallBuildBlobFromJwt ==
  /\ call.op = "build_blob_from_jwt" /\ call.frame.pc = "idle"
  /\ Enter(build_blob_from_jwtCalled(call.jwt, call.keys))

\* Barretenberg.new() resolves.
BarretenbergResolves ==
  /\ call.op \in {"build_stored_hash", "build_blob_from_jwt"}
  /\ call.frame.pc = "Barretenberg.new"
  /\ Enter(BackendCreated(call.frame))

\* Barretenberg.new() rejects (the backend cannot be started).
BarretenbergRejects ==
  /\ call.op \in {"build_stored_hash", "build_blob_from_jwt"}
  /\ call.frame.pc = "Barretenberg.new"
  /\ Enter(PoseidonHashRejected(call.frame))

\* bb.poseidon2Hash resolves: poseidon_hash returns.
Poseidon2HashResolves ==
  /\ call.op \in {"build_stored_hash", "build_blob_from_jwt"}
  /\ call.frame.pc = "bb.poseidon2Hash"
  /\ Enter(MailHashed(call.frame, poseidon_hash(call.poseidon, call.frame.locals.email)))

\* bb.poseidon2Hash rejects.
Poseidon2HashRejects ==
  /\ call.op \in {"build_stored_hash", "build_blob_from_jwt"}
  /\ call.frame.pc = "bb.poseidon2Hash"
  /\ Enter(PoseidonHashRejected(call.frame))

NextJwt ==
  \/ CallBuildStoredHash
  \/ CallBuildBlobFromJwt
  \/ BarretenbergResolves
  \/ BarretenbergRejects
  \/ Poseidon2HashResolves
  \/ Poseidon2HashRejects

SpecJwt == InitJwt /\ [][NextJwt]_vars


(***************************************************************************)
(* Properties of the JwtBlobBuilder.                                       *)
(***************************************************************************)
StoredHashReturned == call.op = "build_stored_hash" /\ call.done /\ call.result.ok
JwtBlobReturned == call.op = "build_blob_from_jwt" /\ call.done /\ call.result.ok
\* s followed by zero bytes up to n entries (s itself when it is longer).
ZeroPadded(s, n) == [i \in 1..Max(n, Len(s)) |-> IF i <= Len(s) THEN s[i] ELSE 0]

(***************************************************************************)
(* C11.  build_stored_hash(email, nonce, modulus_b64url) returns           *)
(* stored_hash = mail_hash (32 bytes) || 0x3A || the ASCII bytes of the    *)
(* nonce, zero-padded (0x00) to exactly 16 bytes || 0x3A || the            *)
(* byte-reversed base64url decoding of the modulus, where mail_hash is the *)
(* poseidon2 hash of the email bytes read as a big-endian integer; the     *)
(* returned mail_hash is the first 32 bytes of stored_hash.  (The decoding *)
(* is stated by its inverse: encoding the reversed tail gives the modulus  *)
(* text back.)                                                             *)
(***************************************************************************)
C11_StoredHashLayout ==
  StoredHashReturned =>
    LET h == call.result.value.stored_hash
        tail == SubSeq(h, 51, Len(h))
    IN /\ Len(h) >= 50
       /\ SubSeq(h, 1, 32) = call.poseidon[bytesToBigInt(stringToBytes(call.email))]
       /\ call.result.value.mail_hash = SubSeq(h, 1, 32)
       /\ h[33] = 58
       /\ SubSeq(h, 34, 49) = ZeroPadded(NumberToString(call.nonce), 16)
       /\ h[50] = 58
       /\ Base64UrlEncode(reverse(tail)) = call.pubkey

\* build_stored_hash("a", 123456, <the modulus bytes FB FF>) returned
\* the nonce slot "123456" and ten zero bytes, and the tail FF FB.
C11_Witness ==
  /\ StoredHashReturned
  /\ call.email = <<97>> /\ call.nonce = JsInt(FALSE, <<1, 2, 3, 4, 5, 6>>)
  /\ call.pubkey = <<45, 95, 56>>
  /\ SubSeq(call.result.value.stored_hash, 33, 52) =
       <<58, 49, 50, 51, 52, 53, 54, 0, 0, 0, 0, 0, 0, 0, 0, 0, 0, 58, 255, 251>>

(***************************************************************************)
(* C12.  For every JWT accepted by build_blob_from_jwt, bytes 33..48 of    *)
(* the returned blob data (the nonce slot) are the ASCII bytes of the      *)
(* JWT's nonce claim, zero-padded to 16 bytes: a nonce claim with leading  *)
(* zeros or non-digit characters is packed as it appears in the token.     *)
(***************************************************************************)
C12_NonceSlotIsNonceClaim ==
  (JwtBlobReturned /\ call.issued) =>
    SubSeq(call.result.value.blob.data, 34, 49) = ZeroPadded(call.claims.nonce.str, 16)

(***************************************************************************)
(* C13.  JWT blob construction (build_stored_hash / build_blob_from_jwt)   *)
(* fails with a ValidationError, and returns no blob, whenever the encoded *)
(* nonce is longer than 16 bytes.  (The validation errors of this code are *)
(* the Errors its own checks throw.)                                       *)
(***************************************************************************)
ValidationErrors ==
  {"Error: Invalid Google token: missing email, nonce, or kid",
   "Error: Google public key with id ${kid} not found"}

\* A segment with '-' or '_' is base64url that atob does not take.
HasUrlOnlyChar(jwt) == \E i \in 1..Len(jwt) : jwt[i] \in {45, 95}
\* The token was issued with these claims and atob decodes its segments.
DecodedToken == call.issued /\ ~HasUrlOnlyChar(call.jwt)
HasKey(kid) == \E i \in 1..Len(call.keys) : call.keys[i].kid = kid.str

\* The call reaches the encoding of a nonce whose text is over 16 long.
EncodedNonceTooLong ==
  \/ /\ call.op = "build_stored_hash"
     /\ Len(NumberToString(call.nonce)) > 16
  \/ /\ call.op = "build_blob_from_jwt"
     /\ DecodedToken
     /\ call.claims.email.typeof = "string" /\ call.claims.email.str # <<>>
     /\ call.claims.nonce.typeof = "string"
     /\ call.claims.kid.typeof = "string" /\ HasKey(call.claims.kid)
     /\ Len(NumberToString(parseInt10(call.claims.nonce.str))) > 16

C13_Original_LongNonceValidationError ==
  (call.done /\ EncodedNonceTooLong) =>
    (~call.result.ok /\ call.result.error \in ValidationErrors)

(***************************************************************************)
(* C14.  build_blob_from_jwt fails with a ValidationError (raised by its   *)
(* own claim/key validation, before any hashing) whenever the JWT lacks    *)
(* the email, nonce or kid claim, or when no key in the supplied key set   *)
(* has a kid equal to the token's kid.                                     *)
(***************************************************************************)
LacksClaim(member) == member.typeof = "undefined"
\* No key has the token's kid: a string no key carries, or an object (the
\* kid of a key is a string).
NoMatchingKey ==
  \/ call.claims.kid.typeof = "string" /\ ~HasKey(call.claims.kid)
  \/ call.claims.kid.typeof = "object"
IssuedTokenCall == call.op = "build_blob_from_jwt" /\ call.issued /\ call.frame.pc # "idle"
LacksClaimOrKey ==
  \/ LacksClaim(call.claims.email) \/ LacksClaim(call.claims.nonce)
  \/ LacksClaim(call.claims.kid) \/ NoMatchingKey

\* C14: a token that lacks a claim, or whose kid no key has, is refused by
\* the function's own validation.
C14_Original_MissingClaimValidationError ==
  (IssuedTokenCall /\ DecodedToken /\ LacksClaimOrKey)
  => (call.done /\ ~call.result.ok /\ call.result.error \in ValidationErrors)

(***************************************************************************)
(* C15.  Every blob a BlobBuilder variant returns is no longer than its    *)
(* circuit's blob capacity: build_stored_hash returns at most 512 bytes    *)
(* (capacity 512) for every modulus it accepts, so that every built blob   *)
(* is accepted by the corresponding assembler, generateHyli.               *)
(***************************************************************************)
C15_StoredHashFitsCapacity ==
  StoredHashReturned =>
    /\ Len(call.result.value.stored_hash) <= 512
    /\ generateHyli(<<>>, call.result.value.stored_hash, <<>>, 0, 1).ok


(***************************************************************************)
(* A caller making several BlobBuilder calls one after the other: the log  *)
(* keeps each call's function, arguments and result.  The functions share  *)
(* no state of their own; the Poseidon2 backend is one function for the    *)
(* whole session.                                                          *)
(***************************************************************************)
\* encodeToHex as it would be without padStart(2, "0"): a byte below 16
\* gives one digit.
RECURSIVE encodeToHexUnpadded(_)
encodeToHexUnpadded(data) ==
  IF data = <<>> THEN <<>>
  ELSE encodeToHexUnpadded(SubSeq(data, 1, Len(data) - 1)) \o toString16(data[Len(data)])

\* encodeToHex(data): two lower-case hexadecimal digits per byte.
encodeToHex(data) ==
  [k \in 1..(2 * Len(data)) |->
     padStart(toString16(data[(k + 1) \div 2]), 2)[2 - (k % 2)]]

\* identity_hash(identity, password), run to its end.
identity_hash(identity, password) ==
  LET hashed_password_bytes == sha256(stringToBytes(password))
      id_prefix == stringToBytes(identity \o <<Colon>>)
      extended_id == id_prefix \o hashed_password_bytes
      computed_hash == sha256(extended_id)
  IN JsString(encodeToHex(computed_hash))

\* identity_hash(identity, password) up to its first await.
identity_hashCalled(identity, password) ==
  Suspended("identity_hash", <<identity, password>>, "sha256(password)",
            stringToBytes(password), <<>>)

\* After the first digest, hashed_password_bytes, the second is requested;
\* after the second, computed_hash, its hexadecimal text is returned.
identity_hashResumed(frame, digest) ==
  IF frame.pc = "sha256(password)"
  THEN Suspended(frame.fn, frame.args, "sha256(extended_id)",
                 stringToBytes(frame.args[1] \o <<Colon>>) \o digest, <<>>)
  ELSE Settled(frame.fn, frame.args, Return(JsString(encodeToHex(digest))))

\* Buffer.from(data).toString("hex") of the earlier version.
BufferToHex(data) ==
  [k \in 1..(2 * Len(data)) |->
     IF k % 2 = 1 THEN HexChar(data[(k + 1) \div 2] \div 16)
     ELSE HexChar(data[k \div 2] % 16)]

\* identity_hash(identity, password) of the earlier version
identity_hashEarlierCalled(identity, password) ==
  Suspended("identity_hash (earlier)", <<identity, password>>, "sha256(password)",
            stringToBytes(password), <<>>)

identity_hashEarlierResumed(frame, digest) ==
  IF frame.pc = "sha256(password)"
  THEN Suspended(frame.fn, frame.args, "sha256(extended_id)",
                 stringToBytes(frame.args[1] \o <<Colon>>) \o digest, <<>>)
  ELSE Settled(frame.fn, frame.args, Return(JsString(BufferToHex(digest))))

SessionNonces == {JsInt(FALSE, <<7>>), JsInt(FALSE, PowerOfTen(16))}
SessionModuli == {<<45, 95, 56>>}
SessionPasswords == {Secret123}

InitSession ==
  /\ call \in {[op |-> "session", poseidon |-> f, log |-> <<>>, frame |-> IdleFrame] :
                 f \in PoseidonFunctions}
  /\ node = [registered |-> {}]
  /\ reg = [i \in RegisterCalls |-> IdleRegister]
  /\ bpt = [j \in ProofCalls |-> IdleProof]

\* The caller awaits each call before making the next: a call is made when
\* none is running.
SessionCalled(frame) ==
  /\ call.op = "session" /\ call.frame.pc = "idle"
  /\ Len(call.log) < MaxSessionCalls
  /\ call' = [call EXCEPT !.frame = frame]
  /\ UNCHANGED <<node, reg, bpt>>

\* The running call goes on to `frame`; when it has settled, the caller
\* has its result.
SessionResumed(frame) ==
  /\ call' = IF frame.pc = "done"
             THEN [call EXCEPT !.frame = IdleFrame,
                               !.log = Append(@, [fn |-> frame.fn, args |-> frame.args,
                                                  result |-> frame.result])]
             ELSE [call EXCEPT !.frame = frame]
  /\ UNCHANGED <<node, reg, bpt>>

SessionBuildBlob ==
  \E identity \in ProofIdentities, password \in ProofPasswords :
    SessionCalled(build_blobCalled(identity, password))

SessionIdentityHash ==
  \E identity \in ProofIdentities, password \in SessionPasswords :
    SessionCalled(identity_hashCalled(identity, password))

SessionIdentityHashEarlier ==
  \E identity \in ProofIdentities, password \in SessionPasswords :
    SessionCalled(identity_hashEarlierCalled(identity, password))

SessionBuildStoredHash ==
  \E email \in Emails, nonce \in SessionNonces, pubkey \in SessionModuli :
    SessionCalled(build_stored_hashCalled(email, nonce, pubkey))

\* The digest the running call awaits arrives.
SessionDigestResolves ==
  /\ call.op = "session" /\ call.frame.pc \in DigestAwaits
  /\ LET digest == sha256(call.frame.awaited)
     IN SessionResumed(IF call.frame.fn = "build_blob"
                         THEN build_blobResumed(call.frame, digest)
                       ELSE IF call.frame.fn = "identity_hash"
                         THEN identity_hashResumed(call.frame, digest)
                       ELSE identity_hashEarlierResumed(call.frame, digest))

\* Barretenberg.new() resolves.
SessionBarretenbergResolves ==
  /\ call.op = "session" /\ call.frame.pc = "Barretenberg.new"
  /\ SessionResumed(BackendCreated(call.frame))

\* bb.poseidon2Hash resolves: poseidon_hash returns.
SessionPoseidon2HashResolves ==
  /\ call.op = "session" /\ call.frame.pc = "bb.poseidon2Hash"
  /\ SessionResumed(MailHashed(call.frame,
                               poseidon_hash(call.poseidon, call.frame.locals.email)))

\* Barretenberg.new() rejects.
SessionBarretenbergRejects ==
  /\ call.op = "session" /\ call.frame.pc = "Barretenberg.new"
  /\ SessionResumed(PoseidonHashRejected(call.frame))

\* bb.poseidon2Hash rejects.
SessionPoseidon2HashRejects ==
  /\ call.op = "session" /\ call.frame.pc = "bb.poseidon2Hash"
  /\ SessionResumed(PoseidonHashRejected(call.frame))

NextSession ==
  \/ SessionBuildBlob
  \/ SessionIdentityHash
  \/ SessionIdentityHashEarlier
  \/ SessionBuildStoredHash
  \/ SessionDigestResolves
  \/ SessionBarretenbergResolves
  \/ SessionBarretenbergRejects
  \/ SessionPoseidon2HashResolves
  \/ SessionPoseidon2HashRejects

SpecSession == InitSession /\ [][NextSession]_vars

(***************************************************************************)
(* ProofPipeline: check_jwt.build_proof_transaction(identity, stored_hash, *)
(* tx, blob_index, tx_blob_count, idToken, jwtPubkey, circuit,             *)
(* jwtInputsOverride).  generateInputs (noir-jwt), the circuit executor    *)
(* and the proof backend are external: each request resolves or rejects.   *)
(***************************************************************************)
JwtStoredHashes == {Bytes(1, JwtBlobLen), Bytes(1, JwtBlobLen - 1)}
\* idToken: "" or "tok"; jwtPubkey and jwtInputsOverride: given or not.
IdTokens == {<<>>, <<116, 111, 107>>}

\* The inputs handed to noir.execute, unless generateHyli throws.
JwtCircuitInputs(p, jwtInputs) ==
  LET hyli == generateHyli(p.identity, p.stored_hash, p.tx_hash, p.blob_index,
                           p.tx_blob_count)
  IN IF hyli.ok THEN Return([hyli |-> hyli.value, jwtInputs |-> jwtInputs]) ELSE hyli

\* With the JWT inputs at hand: the inputs are assembled and, unless
\* generateHyli throws, new UltraHonkBackend(circuit.bytecode) and
\* backend.getVerificationKey() follow.
AfterJwtInputs(p, jwtInputs) ==
  LET inputs == JwtCircuitInputs(p, jwtInputs)
  IN IF inputs.ok
     THEN [p EXCEPT !.pc = "jwt:getVerificationKey", !.jwtInputs = jwtInputs,
                    !.inputs = <<inputs.value>>, !.backendRef = NewReference,
                    !.trace = @ \o <<"generateHyli", "getVerificationKey">>]
     ELSE [p EXCEPT !.pc = "done", !.jwtInputs = jwtInputs,
                    !.trace = Append(@, "generateHyli"), !.result = inputs]

\* The invocation's arguments and locals before anything has been done.
JwtInvocation(stored_hash, idToken, jwtPubkey, override, circuit) ==
  [pc |-> "jwt:generateInputs", identity |-> Alice,
   stored_hash |-> stored_hash, tx_hash |-> ProofTxHash,
   blob_index |-> 0, tx_blob_count |-> 1,
   idToken |-> idToken, jwtPubkey |-> jwtPubkey, override |-> override,
   circuit |-> circuit, backendRef |-> 0, jwtInputs |-> "none", inputs |-> <<>>,
   vk |-> <<>>, executed |-> <<>>, proved |-> 0,
   backend |-> NoBackendProof, trace |-> <<>>, result |-> NoResult]

\* The instances once the invocation has come to p: its backend has been
\* constructed when it awaits the key.
BackendOf(p) ==
  IF p.pc = "jwt:getVerificationKey" THEN Constructed(UltraHonkBackend(p.circuit))
  ELSE call

\* The call as it would be if idToken and jwtPubkey were required even when
\* jwtInputsOverride is supplied.
JwtBuildProofTransactionCalledAlwaysRequires(j) ==
  /\ bpt[j].pc = "idle"
  /\ \E stored_hash \in JwtStoredHashes, idToken \in IdTokens,
        jwtPubkey \in BOOLEAN, override \in BOOLEAN, circuit \in {defaultCircuit("check_jwt")} :
       LET p == JwtInvocation(stored_hash, idToken, jwtPubkey, override, circuit)
           called == IF idToken = <<>> \/ ~jwtPubkey
                       THEN [p EXCEPT !.pc = "done",
                                      !.result =
            Throw("Error: [JWT Circuit] Proof generation failed: idToken and jwtPubkey are required")]
                     ELSE IF override THEN AfterJwtInputs(p, "jwtInputsOverride")
                     ELSE [p EXCEPT !.trace = <<"generateInputs">>]
       IN /\ bpt' = [bpt EXCEPT ![j] = called]
          /\ call' = BackendOf(called)
  /\ UNCHANGED <<node, reg>>

\* check_jwt.build_proof_transaction up to its first await: without an
\* override it requires idToken and jwtPubkey and calls generateInputs; with
\* an override it goes on at once.
jwt_build_proof_transactionCalled(stored_hash, idToken, jwtPubkey, override, circuit) ==
  LET p == JwtInvocation(stored_hash, idToken, jwtPubkey, override, circuit)
  IN IF ~override /\ (idToken = <<>> \/ ~jwtPubkey)
       THEN [p EXCEPT !.pc = "done",
                      !.result =
            Throw("Error: [JWT Circuit] Proof generation failed: idToken and jwtPubkey are required")]
     ELSE IF override THEN AfterJwtInputs(p, "jwtInputsOverride")
     ELSE [p EXCEPT !.trace = <<"generateInputs">>]

\* build_proof_transaction is called.
JwtBuildProofTransactionCalled(j) ==
  /\ bpt[j].pc = "idle"
  /\ \E stored_hash \in JwtStoredHashes, idToken \in IdTokens,
        jwtPubkey \in BOOLEAN, override \in BOOLEAN, circuit \in {defaultCircuit("check_jwt")} :
       LET called == jwt_build_proof_transactionCalled(stored_hash, idToken, jwtPubkey,
                                                       override, circuit)
       IN /\ bpt' = [bpt EXCEPT ![j] = called]
          /\ call' = BackendOf(called)
  /\ UNCHANGED <<node, reg>>

JwtGenerateInputsResolves(j) ==
  /\ bpt[j].pc = "jwt:generateInputs"
  /\ bpt' = [bpt EXCEPT ![j] = AfterJwtInputs(bpt[j], "generateInputs")]
  /\ call' = BackendOf(AfterJwtInputs(bpt[j], "generateInputs"))
  /\ UNCHANGED <<node, reg>>

JwtGenerateInputsRejects(j) ==
  /\ bpt[j].pc = "jwt:generateInputs"
  /\ bpt' = [bpt EXCEPT ![j] = [@ EXCEPT !.pc = "done", !.result = Throw("InputsError")]]
  /\ UNCHANGED <<call, node, reg>>

\* The key of the invocation's backend arrives: new Noir(circuit) and
\* noir.execute(inputs).
JwtKeyResolves(j) ==
  /\ bpt[j].pc = "jwt:getVerificationKey"
  /\ bpt' = [bpt EXCEPT ![j] = [@ EXCEPT !.pc = "jwt:noir.execute",
                                         !.vk = VerificationKey(
                                                  call.instances[bpt[j].backendRef].bytecode),
                                         !.executed = bpt[j].inputs,
                                         !.trace = Append(@, "noir.execute")]]
  /\ UNCHANGED <<call, node, reg>>

JwtKeyRejects(j) ==
  /\ bpt[j].pc = "jwt:getVerificationKey"
  /\ bpt' = [bpt EXCEPT ![j] = [@ EXCEPT !.pc = "done", !.result = Throw("BackendError")]]
  /\ UNCHANGED <<call, node, reg>>

JwtExecuteResolves(j) ==
  /\ bpt[j].pc = "jwt:noir.execute"
  /\ bpt' = [bpt EXCEPT ![j] = [@ EXCEPT !.pc = "jwt:generateProof", !.proved = @ + 1,
                                         !.trace = Append(@, "generateProof")]]
  /\ UNCHANGED <<call, node, reg>>

JwtExecuteRejects(j) ==
  /\ bpt[j].pc = "jwt:noir.execute"
  /\ bpt' = [bpt EXCEPT ![j] = [@ EXCEPT !.pc = "done", !.result = Throw("ExecutionError")]]
  /\ UNCHANGED <<call, node, reg>>

JwtGenerateProofResolves(j) ==
  /\ bpt[j].pc = "jwt:generateProof"
  /\ \E proof \in BackendProofs :
       bpt' = [bpt EXCEPT ![j] = ProofTransaction(@, contract_name, proof,
                                                  flattenFieldsAsArray(proof.publicInputs))]
  /\ UNCHANGED <<call, node, reg>>

JwtGenerateProofRejects(j) ==
  /\ bpt[j].pc = "jwt:generateProof"
  /\ bpt' = [bpt EXCEPT ![j] = [@ EXCEPT !.pc = "done", !.result = Throw("BackendError")]]
  /\ UNCHANGED <<call, node, reg>>

NextJwtProof ==
  \E j \in ProofCalls :
    \/ JwtBuildProofTransactionCalled(j)
    \/ JwtGenerateInputsResolves(j)
    \/ JwtGenerateInputsRejects(j)
    \/ JwtKeyResolves(j)
    \/ JwtKeyRejects(j)
    \/ JwtExecuteResolves(j)
    \/ JwtExecuteRejects(j)
    \/ JwtGenerateProofResolves(j)
    \/ JwtGenerateProofRejects(j)

\* Invocations of build_proof_transaction of both contracts.
NextPipelines == NextProof \/ NextJwtProof

SpecPipelines == InitProof /\ [][NextPipelines]_vars

\* build_proof_transaction returned a ProofTransaction.
ProofReturned(j) == bpt[j].pc = "done" /\ bpt[j].result.ok

\* The 32-byte big-endian encoding of a BigInt below 2^256.
BigEndian32(big) == Zeros(32 - Len(big.magnitude)) \o big.magnitude

RECURSIVE EncodedInputs(_)
EncodedInputs(fields) ==
  IF fields = <<>> THEN <<>>
  ELSE EncodedInputs(SubSeq(fields, 1, Len(fields) - 1))
         \o BigEndian32(BigInt(fields[Len(fields)]).value)

\* Strings a public input can be: "0x" and one or two hexadecimal digits,
\* "0x" and 64 digits (zero, 0x...0102, the largest field element, the
\* largest value of 32 bytes), and the decimals "0", "9", "255", "65536".
PublicInputStrings ==
  {<<48, 120, HexChar(a)>> : a \in 0..15}
  \cup {<<48, 120, HexChar(a), HexChar(b)>> : a, b \in 0..15}
  \cup {FieldString(low) : low \in {<<>>, <<1, 0, 2>>, LargestFieldElement, Largest32Bytes}}
  \cup {<<48>>, <<57>>, <<50, 53, 53>>, <<54, 53, 53, 51, 54>>}
\* flattenFieldsAsArray of one such string is its 32-byte big-endian encoding.
PublicInputStringsAre32Bytes ==
  \A s \in PublicInputStrings :
    /\ Len(hexToUint8Array(s).value) = 32
    /\ flattenFieldsAsArray(<<s>>).value = BigEndian32(BigInt(s).value)

(***************************************************************************)
(* C17.  The proof field of every returned ProofTransaction is the         *)
(* concatenation of the 32-byte big-endian encoding of each backend public *)
(* input, in the backend's order, followed by the raw backend proof bytes; *)
(* flattenFieldsAsArray maps every public-input string to exactly 32       *)
(* bytes, so its output length is 32 times the number of public inputs.    *)
(***************************************************************************)
C17_ProofLayout ==
  \A j \in ProofCalls :
    ProofReturned(j) =>
      LET out == bpt[j].backend
      IN /\ PublicInputStringsAre32Bytes
         /\ bpt[j].result.value.proof = EncodedInputs(out.publicInputs) \o out.proof
         /\ Len(flattenFieldsAsArray(out.publicInputs).value) = 32 * Len(out.publicInputs)
         /\ \A i \in 1..Len(out.publicInputs) :
              Len(hexToUint8Array(out.publicInputs[i]).value) = 32

\* A check_jwt transaction was returned for the backend output
\* (["0x1", "0x00ff"], no proof bytes): 31 zeros, 1, 31 zeros, 255.
C17_Witness ==
  \E j \in ProofCalls :
    /\ ProofReturned(j)
    /\ bpt[j].result.value.contract_name = contract_name
    /\ bpt[j].backend.publicInputs = <<<<48, 120, 49>>, <<48, 120, 48, 48, 102, 102>>>>
    /\ bpt[j].result.value.proof =
         [i \in 1..64 |-> IF i = 32 THEN 1 ELSE IF i = 64 THEN 255 ELSE 0]

(***************************************************************************)
(* C18.  Round trip: for every backend output (publicInputs, rawProof),    *)
(* splitting the reconstructed proof bytes at offset 32 * |publicInputs|   *)
(* and reading each 32-byte chunk as a big-endian integer (bytesToBigInt)  *)
(* recovers exactly the original public-input values and the original raw  *)
(* proof bytes.                                                            *)
(***************************************************************************)
C18_ProofRoundTrip ==
  \A j \in ProofCalls :
    ProofReturned(j) =>
      LET out == bpt[j].backend
          bytes == bpt[j].result.value.proof
          inputsLen == 32 * Len(out.publicInputs)
      IN /\ Len(bytes) >= inputsLen
         /\ \A i \in 1..Len(out.publicInputs) :
              bytesToBigInt(SubSeq(bytes, (32 * (i - 1)) + 1, 32 * i))
                = BigInt(out.publicInputs[i]).value
         /\ SubSeq(bytes, inputsLen + 1, Len(bytes)) = out.proof

\* A check_secret transaction was returned for the backend output
\* ([0x...0102, 0x...ab], proof 00 09); its second chunk reads 0xab.
C18_Witness ==
  \E j \in ProofCalls :
    /\ ProofReturned(j)
    /\ bpt[j].result.value.contract_name = check_secret_name
    /\ bpt[j].backend.proof = <<0, 9>>
    /\ Len(bpt[j].result.value.proof) = 66
    /\ bytesToBigInt(SubSeq(bpt[j].result.value.proof, 33, 64)) = JsBigInt(FALSE, <<171>>)

\* The invocation is of check_jwt.build_proof_transaction.
IsJwtProof(j) == "override" \in DOMAIN bpt[j]
\* The step the invocation started last.
LastStep(j) == bpt[j].trace[Len(bpt[j].trace)]
\* What record assembly gives for the invocation's arguments.
Assembled(j) ==
  IF IsJwtProof(j)
  THEN generateHyli(bpt[j].identity, bpt[j].stored_hash, bpt[j].tx_hash,
                    bpt[j].blob_index, bpt[j].tx_blob_count)
  ELSE LET pwd == sha256(stringToBytes(bpt[j].password))
       IN ProverData(bpt[j].version, bpt[j].identity, pwd,
                     sha256(stringToBytes(bpt[j].identity) \o <<58>> \o pwd),
                     bpt[j].tx_hash, bpt[j].blob_index, bpt[j].tx_blob_count)

(***************************************************************************)
(* C22.  There is no partial success in build_proof_transaction: in every  *)
(* execution it either returns a complete ProofTransaction (contract_name, *)
(* program_id = verification key bytes, verifier = "noir", proof) or       *)
(* raises; nothing is returned before the last step; if record assembly,   *)
(* circuit execution or proof generation fails, no ProofTransaction is     *)
(* returned and the error of the failed step reaches the caller.           *)
(***************************************************************************)
C22_NoPartialSuccess ==
  \A j \in ProofCalls :
    /\ bpt[j].pc \notin {"idle", "done"} => bpt[j].result = NoResult
    /\ ProofReturned(j) =>
         /\ LastStep(j) = "reconstructHonkProof"
         /\ DOMAIN bpt[j].result.value =
              {"contract_name", "program_id", "verifier", "proof"}
         /\ bpt[j].result.value.contract_name =
              (IF IsJwtProof(j) THEN <<99, 104, 101, 99, 107, 95, 106, 119, 116>>
               ELSE <<99, 104, 101, 99, 107, 95, 115, 101, 99, 114, 101, 116>>)
         /\ bpt[j].result.value.program_id = VerificationKey(bpt[j].circuit)
         /\ bpt[j].result.value.program_id # <<>>
         /\ bpt[j].result.value.verifier = "noir"
         /\ bpt[j].backend \in BackendProofs
         /\ bpt[j].result.value.proof # <<>>
    /\ (bpt[j].pc = "done" /\ bpt[j].trace # <<>>
          /\ LastStep(j) \in {"generateProverData", "generateHyli"}) =>
         (~bpt[j].result.ok /\ ~Assembled(j).ok /\ bpt[j].result = Assembled(j))
    /\ (bpt[j].pc = "done" /\ bpt[j].trace # <<>> /\ LastStep(j) = "noir.execute") =>
         (~bpt[j].result.ok /\ bpt[j].result.error = "ExecutionError")
    /\ (bpt[j].pc = "done" /\ bpt[j].trace # <<>> /\ LastStep(j) = "generateProof") =>
         (~bpt[j].result.ok /\ bpt[j].result.error = "BackendError")

\* An invocation of check_secret whose circuit execution failed: it ended
\* with the executor's error and no transaction.
C22_Witness ==
  \E j \in ProofCalls :
    /\ bpt[j].pc = "done" /\ ~IsJwtProof(j)
    /\ LastStep(j) = "noir.execute"
    /\ bpt[j].vk # <<>>
    /\ ~bpt[j].result.ok

(***************************************************************************)
(* Concurrent invocations.  The blob builders and build_proof_transaction  *)
(* are async functions: an invocation runs until its next await and goes   *)
(* on when the awaited promise settles, so invocations interleave at their *)
(* awaits.  Each slot of bpt holds one invocation: of one of the two       *)
(* build_proof_transaction, or of a blob builder (build_blob,              *)
(* identity_hash, build_stored_hash, build_blob_from_jwt), whose slot      *)
(* holds its frame and the answers its requests have received.             *)
(***************************************************************************)
ConcurrentCalls == 1..NumConcurrentCalls

\* The arguments of the concurrent invocations.
ConcurrentSecretArgs ==
  {<<"current", Alice, Secret123, defaultCircuit("check_secret")>>,
   <<"earlier", <<233>>, <<>>, "custom.json">>}
ConcurrentJwtArgs == {<<Bytes(1, JwtBlobLen), <<116, 111, 107>>, TRUE, FALSE>>}
ConcurrentBlobArgs == {<<Alice, Secret123>>}
\* build_stored_hash("a", 7, "-_8") and build_stored_hash("bob@x.io", 10^16, "-_8")
ConcurrentStoredHashArgs ==
  {<<<<97>>, JsInt(FALSE, <<7>>), <<45, 95, 56>>>>,
   <<<<98, 111, 98, 64, 120, 46, 105, 111>>, JsInt(FALSE, PowerOfTen(16)), <<45, 95, 56>>>>}
\* Tokens issued for "a" with nonce "7", signed with k1 and with the unknown
\* k3, and the keys k2 and k1.
ConcurrentTokens ==
  {IssueToken([kid |-> JsString(kid), email |-> JsString(<<97>>),
               nonce |-> JsString(<<55>>)]) : kid \in {<<107, 49>>, <<107, 51>>}}
ConcurrentKeys == <<Key2, Key1>>
\* One Poseidon2 function: distinct field elements have distinct hashes.
ConcurrentPoseidon ==
  CHOOSE f \in PoseidonFunctions : \A x, y \in FieldElements : f[x] = f[y] => x = y

InitConcurrent ==
  /\ call = [op |-> "concurrent", poseidon |-> ConcurrentPoseidon, instances |-> <<>>]
  /\ node = [registered |-> {}]
  /\ reg = [i \in RegisterCalls |-> IdleRegister]
  /\ bpt = [j \in ConcurrentCalls |-> IdleProof]

\* check_secret.build_proof_transaction is called.
ConcurrentSecretProofCalled(j) ==
  /\ bpt[j].pc = "idle"
  /\ \E a \in ConcurrentSecretArgs :
       /\ bpt' = [bpt EXCEPT ![j] = build_proof_transactionCalled(
                                      a[1], a[2], a[3], <<MaxBlobIndex, MaxBlobIndex + 1>>,
                                      a[4])]
       /\ call' = Constructed(UltraHonkBackend(a[4]))
  /\ UNCHANGED <<node, reg>>

\* check_jwt.build_proof_transaction is called.
ConcurrentJwtProofCalled(j) ==
  /\ bpt[j].pc = "idle"
  /\ \E a \in ConcurrentJwtArgs :
       LET called == jwt_build_proof_transactionCalled(a[1], a[2], a[3], a[4],
                                                       defaultCircuit("check_jwt"))
       IN /\ bpt' = [bpt EXCEPT ![j] = called]
          /\ call' = BackendOf(called)
  /\ UNCHANGED <<node, reg>>

\* The slot of a builder's invocation: its frame, and what its requests
\* have been answered with so far.
BuilderSlot(frame, answers) ==
  [pc |-> IF frame.pc = "done" THEN "done" ELSE "builder", frame |-> frame,
   answers |-> answers, result |-> frame.result]
IsBuilder(j) == "frame" \in DOMAIN bpt[j]
BuilderCalled(j, frame) ==
  /\ bpt[j].pc = "idle"
  /\ bpt' = [bpt EXCEPT ![j] = BuilderSlot(frame, <<>>)]
  /\ UNCHANGED <<call, node, reg>>
BuilderResumed(j, answer, frame) ==
  /\ bpt' = [bpt EXCEPT ![j] = BuilderSlot(frame, Append(bpt[j].answers, answer))]
  /\ UNCHANGED <<call, node, reg>>
BuilderAwaits(j, awaits) == bpt[j].pc = "builder" /\ bpt[j].frame.pc \in awaits

\* build_blob is called.
BuildBlobCalled(j) ==
  \E a \in ConcurrentBlobArgs : BuilderCalled(j, build_blobCalled(a[1], a[2]))

\* identity_hash is called.
IdentityHashCalled(j) ==
  \E a \in ConcurrentBlobArgs : BuilderCalled(j, identity_hashCalled(a[1], a[2]))

\* build_stored_hash is called: poseidon_hash(email) is started and awaits
\* Barretenberg.new().
BuildStoredHashCalled(j) ==
  \E a \in ConcurrentStoredHashArgs :
    BuilderCalled(j, build_stored_hashCalled(a[1], a[2], a[3]))

\* build_blob_from_jwt is called: it throws, or calls build_stored_hash.
BuildBlobFromJwtCalled(j) ==
  \E jwt \in ConcurrentTokens :
    BuilderCalled(j, build_blob_from_jwtCalled(jwt, ConcurrentKeys))

\* The builder of slot j resumed with the digest it awaited.
BuilderDigested(j, digest) ==
  BuilderResumed(j, Return(digest),
                 IF bpt[j].frame.fn = "build_blob"
                   THEN build_blobResumed(bpt[j].frame, digest)
                 ELSE identity_hashResumed(bpt[j].frame, digest))

\* The digest the invocation awaits arrives.
BuilderDigestResolves(j) ==
  /\ BuilderAwaits(j, DigestAwaits)
  /\ BuilderDigested(j, sha256(bpt[j].frame.awaited))

\* Barretenberg.new() resolves: poseidon_hash awaits bb.poseidon2Hash.
PoseidonBackendResolves(j) ==
  /\ BuilderAwaits(j, {"Barretenberg.new"})
  /\ BuilderResumed(j, Return("Barretenberg"), BackendCreated(bpt[j].frame))

\* Barretenberg.new() rejects: poseidon_hash rejects, and with it the
\* builder that awaits it.
PoseidonBackendRejects(j) ==
  /\ BuilderAwaits(j, {"Barretenberg.new"})
  /\ BuilderResumed(j, Throw("BackendError"), PoseidonHashRejected(bpt[j].frame))

\* The builder of slot j resumed with the mail hash it awaited.
BuilderMailHashed(j, mail_hash) ==
  BuilderResumed(j, Return(mail_hash), MailHashed(bpt[j].frame, mail_hash))

\* The mail hash arrives: the nonce is rendered and padded, the modulus is
\* decoded and reversed, and the stored hash is returned (or the call throws).
PoseidonHashResolves(j) ==
  /\ BuilderAwaits(j, {"bb.poseidon2Hash"})
  /\ BuilderMailHashed(j, poseidon_hash(call.poseidon, bpt[j].frame.locals.email))

\* bb.poseidon2Hash rejects.
PoseidonHashRejects(j) ==
  /\ BuilderAwaits(j, {"bb.poseidon2Hash"})
  /\ BuilderResumed(j, Throw("BackendError"), PoseidonHashRejected(bpt[j].frame))

NextConcurrent ==
  \E j \in ConcurrentCalls :
    \/ ConcurrentSecretProofCalled(j)
    \/ ProofKeyResolves(j)
    \/ ProofKeyRejects(j)
    \/ PasswordDigestResolves(j)
    \/ StoredHashResolves(j)
    \/ ExecuteResolves(j)
    \/ ExecuteRejects(j)
    \/ GenerateProofResolves(j)
    \/ GenerateProofRejects(j)
    \/ ConcurrentJwtProofCalled(j)
    \/ JwtGenerateInputsResolves(j)
    \/ JwtGenerateInputsRejects(j)
    \/ JwtKeyResolves(j)
    \/ JwtKeyRejects(j)
    \/ JwtExecuteResolves(j)
    \/ JwtExecuteRejects(j)
    \/ JwtGenerateProofResolves(j)
    \/ JwtGenerateProofRejects(j)
    \/ BuildBlobCalled(j)
    \/ IdentityHashCalled(j)
    \/ BuildStoredHashCalled(j)
    \/ BuildBlobFromJwtCalled(j)
    \/ BuilderDigestResolves(j)
    \/ PoseidonBackendResolves(j)
    \/ PoseidonBackendRejects(j)
    \/ PoseidonHashResolves(j)
    \/ PoseidonHashRejects(j)

SpecConcurrent == InitConcurrent /\ [][NextConcurrent]_vars

\* The result of a builder run alone on `args`, its requests answered as in
\* `answers`: a rejected request ends it, and otherwise it runs to its end.
AloneBuilderResult(fn, args, answers) ==
  IF \E n \in DOMAIN answers : ~answers[n].ok THEN Throw("BackendError")
  ELSE IF fn = "build_blob" THEN Return(build_blob(args[1], args[2]))
  ELSE IF fn = "identity_hash" THEN Return(identity_hash(args[1], args[2]))
  ELSE IF fn = "build_stored_hash"
    THEN build_stored_hash(args[1], args[2], args[3], call.poseidon)
  ELSE build_blob_from_jwt(args[1], args[2], call.poseidon)

\* The result of invocation j run alone: what its own arguments and the
\* answers its own requests received determine.
AloneResult(j) ==
  LET p == bpt[j]
  IN IF IsBuilder(j) THEN AloneBuilderResult(p.frame.fn, p.frame.args, p.answers)
     ELSE IF IsJwtProof(j) /\ ~p.override /\ (p.idToken = <<>> \/ ~p.jwtPubkey)
       THEN
         Throw("Error: [JWT Circuit] Proof generation failed: idToken and jwtPubkey are required")
     ELSE IF p.backend # NoBackendProof
       THEN Return([contract_name |-> IF IsJwtProof(j) THEN contract_name
                                        ELSE check_secret_name,
                    program_id |-> VerificationKey(p.circuit),
                    verifier |-> "noir",
                    proof |-> EncodedInputs(p.backend.publicInputs) \o p.backend.proof])
     ELSE IF LastStep(j) \in {"generateProverData", "generateHyli"} THEN Assembled(j)
     ELSE IF LastStep(j) = "noir.execute" THEN Throw("ExecutionError")
     ELSE IF LastStep(j) = "generateInputs" THEN Throw("InputsError")
     ELSE Throw("BackendError")

(***************************************************************************)
(* C23.  Concurrent invocations of the blob builders (build_blob,          *)
(* identity_hash, build_stored_hash, build_blob_from_jwt) and of           *)
(* build_proof_transaction are independent: in every interleaving of the   *)
(* invocations at their suspension points, each invocation's result equals *)
(* the result it produces when run alone (a function of its own arguments  *)
(* and of the answers to its own requests), and an invocation that has not *)
(* finished has returned nothing.                                          *)
(***************************************************************************)
C23_ConcurrentInvocationsIndependent ==
  \A j \in ConcurrentCalls :
    /\ bpt[j].pc = "done" => bpt[j].result = AloneResult(j)
    /\ bpt[j].pc \notin {"idle", "done"} => bpt[j].result = NoResult

\* Two invocations of check_secret.build_proof_transaction with different
\* circuits have both returned, each with the key of its own circuit: they
\* hold the first and the second backend constructed.
C23_Witness ==
  \E j, k \in ConcurrentCalls :
    /\ j # k
    /\ bpt[j].pc = "done" /\ bpt[k].pc = "done"
    /\ ~IsJwtProof(j) /\ ~IsJwtProof(k) /\ ~IsBuilder(j) /\ ~IsBuilder(k)
    /\ "circuit" \in DOMAIN bpt[j] /\ "circuit" \in DOMAIN bpt[k]
    /\ bpt[j].backendRef = 1 /\ bpt[k].backendRef = 2
    /\ bpt[j].circuit # bpt[k].circuit
    /\ bpt[j].result.ok /\ bpt[k].result.ok
    /\ bpt[j].result.value.program_id # bpt[k].result.value.program_id

\* The four steps of a proof build, with record assembly under one name.
IsBuildStep(step) ==
  step \in {"generateProverData", "generateHyli", "noir.execute", "generateProof",
            "reconstructHonkProof"}
StepName(step) == IF step \in {"generateProverData", "generateHyli"} THEN "assemble" ELSE step
BuildSteps(j) ==
  LET steps == SelectSeq(bpt[j].trace, IsBuildStep)
  IN [n \in 1..Len(steps) |-> StepName(steps[n])]
StepOrder == <<"assemble", "noir.execute", "generateProof", "reconstructHonkProof">>

(***************************************************************************)
(* C24.  Within one build_proof_transaction call the steps happen in the   *)
(* order: record assembly, circuit execution (noir.execute), proof         *)
(* generation (backend.generateProof), proof reconstruction; circuit       *)
(* execution and proof generation are each invoked at most once (no        *)
(* retry), and proof generation is never invoked if circuit execution      *)
(* failed.                                                                 *)
(***************************************************************************)
C24_StepOrderNoRetry ==
  \A j \in ProofCalls :
    bpt[j].pc # "idle" =>
      /\ Len(BuildSteps(j)) <= 4
      /\ BuildSteps(j) = SubSeq(StepOrder, 1, Len(BuildSteps(j)))
      /\ Len(bpt[j].executed) = (IF Len(BuildSteps(j)) >= 2 THEN 1 ELSE 0)
      /\ bpt[j].proved = (IF Len(BuildSteps(j)) >= 3 THEN 1 ELSE 0)
      /\ (bpt[j].pc = "done" /\ ~bpt[j].result.ok
            /\ bpt[j].result.error = "ExecutionError") =>
           (bpt[j].proved = 0 /\ Len(BuildSteps(j)) = 2
              /\ bpt[j].backend = NoBackendProof)

\* An invocation of the earlier version went through all four steps.
C24_Witness ==
  \E j \in ProofCalls :
    /\ bpt[j].pc = "done" /\ bpt[j].result.ok
    /\ ~IsJwtProof(j) /\ bpt[j].version = "earlier"
    /\ BuildSteps(j) = StepOrder
    /\ Len(bpt[j].executed) = 1 /\ bpt[j].proved = 1

\* The digits of hexadecimal notation in lower case.
LowerHexDigits == <<48, 49, 50, 51, 52, 53, 54, 55, 56, 57, 97, 98, 99, 100, 101, 102>>
\* text is the lower-case hex encoding of data, two digits per byte.
IsLowerHexOf(text, data) ==
  /\ Len(text) = 2 * Len(data)
  /\ \A k \in 1..Len(data) :
       /\ text[2 * k - 1] = LowerHexDigits[(data[k] \div 16) + 1]
       /\ text[2 * k] = LowerHexDigits[(data[k] % 16) + 1]
IsIdentityHashCall(entry) == entry.fn \in {"identity_hash", "identity_hash (earlier)"}

(***************************************************************************)
(* C26.  For every (identity, password), identity_hash(identity, password) *)
(* equals the lowercase hex encoding (two digits per byte, 64 characters)  *)
(* of build_blob(identity, password).data, so the publicly stored hash and *)
(* the blob commitment always agree.                                       *)
(***************************************************************************)
C26_IdentityHashIsHexOfBlob ==
  call.op = "session" =>
    \A m \in 1..Len(call.log) :
      IsIdentityHashCall(call.log[m]) =>
        /\ call.log[m].result.ok
        /\ Len(call.log[m].result.value.str) = 64
        /\ IsLowerHexOf(call.log[m].result.value.str,
                        build_blob(call.log[m].args[1], call.log[m].args[2]).data)
        /\ \A n \in 1..Len(call.log) :
             (call.log[n].fn = "build_blob" /\ call.log[n].args = call.log[m].args) =>
               IsLowerHexOf(call.log[m].result.value.str, call.log[n].result.value.data)

\* identity_hash of both versions and build_blob were called with the same
\* identity and password, and the digest has a byte below 16.
C26_Witness ==
  /\ call.op = "session" /\ Len(call.log) = 3
  /\ call.log[1].fn = "identity_hash"
  /\ call.log[2].fn = "build_blob"
  /\ call.log[3].fn = "identity_hash (earlier)"
  /\ call.log[2].args = call.log[1].args /\ call.log[3].args = call.log[1].args
  /\ \E k \in 1..32 : call.log[2].result.value.data[k] < 16

(***************************************************************************)
(* C27.  In every HyliOutput record either assembler returns, the index    *)
(* field equals the blob_index field (both are set from the caller's       *)
(* blob_index argument), and tx_blob_count equals the caller's             *)
(* tx_blob_count argument unchanged.                                       *)
(***************************************************************************)
C27_IndexFieldsFromArguments ==
  Returned =>
    /\ Hyli.index = Hyli.blob_index
    /\ Hyli.blob_index = call.blob_index
    /\ Hyli.tx_blob_count = call.tx_blob_count

\* generateHyli returned a record for a blob that is not the last of its
\* transaction.
C27_Witness ==
  /\ Returned /\ call.op = "generateHyli"
  /\ call.blob_index = 0 /\ call.tx_blob_count = 2
  /\ Hyli.index = 0 /\ Hyli.tx_blob_count = 2

\* The invocation lacks an argument it needs: no jwtInputsOverride and an
\* empty idToken or no jwtPubkey.
LacksJwtArguments(j) ==
  ~bpt[j].override /\ (bpt[j].idToken = <<>> \/ ~bpt[j].jwtPubkey)

(***************************************************************************)
(* C28.  check_jwt.build_proof_transaction called without                  *)
(* jwtInputsOverride and with a missing idToken or missing jwtPubkey       *)
(* throws before any external capability (JWT input generation,            *)
(* verification-key derivation, circuit execution, proof generation) is    *)
(* invoked; when jwtInputsOverride is supplied, idToken and jwtPubkey are  *)
(* not required and JWT input generation is never invoked.                 *)
(***************************************************************************)
C28_ArgumentsCheckedFirst ==
  \A j \in ProofCalls :
    IsJwtProof(j) =>
      /\ LacksJwtArguments(j) =>
           /\ bpt[j].pc = "done" /\ ~bpt[j].result.ok
           /\ bpt[j].result.error =
            "Error: [JWT Circuit] Proof generation failed: idToken and jwtPubkey are required"
           /\ bpt[j].trace = <<>>
           /\ bpt[j].jwtInputs = "none" /\ bpt[j].vk = <<>>
           /\ bpt[j].executed = <<>> /\ bpt[j].proved = 0
      /\ bpt[j].override =>
           /\ \A n \in 1..Len(bpt[j].trace) : bpt[j].trace[n] # "generateInputs"
           /\ bpt[j].jwtInputs = "jwtInputsOverride"
           /\ bpt[j].trace # <<>> /\ bpt[j].trace[1] = "generateHyli"
           /\ (bpt[j].pc = "done" /\ ~bpt[j].result.ok) =>
                bpt[j].result.error #
                  "Error: [JWT Circuit] Proof generation failed: idToken and jwtPubkey are required"
      /\ (~bpt[j].override /\ ~LacksJwtArguments(j)) =>
           bpt[j].trace[1] = "generateInputs"

\* Called with a key but an empty idToken and no override, the invocation
\* threw without invoking anything.
C28_Witness ==
  \E j \in ProofCalls :
    /\ IsJwtProof(j) /\ LacksJwtArguments(j)
    /\ bpt[j].idToken = <<>> /\ bpt[j].jwtPubkey
    /\ bpt[j].pc = "done" /\ ~bpt[j].result.ok /\ bpt[j].trace = <<>>

====
